---- MODULE Spec2Model ----
(***************************************************************************)
(* Model of gitcfg's configuration snapshot builder                        *)
(* (src/src/gitcfg/core/parser.py, models.py, categories.py).              *)
(*                                                                         *)
(* Python strings are sequences of one-character strings, so that strip,   *)
(* split, lower, fnmatch and string comparison are computed as the code    *)
(* computes them.  A ConfigScope is one of the enum values "system",       *)
(* "global", "local".                                                      *)
(***************************************************************************)
EXTENDS Integers, Sequences, FiniteSets, TLC

\* Largest number of lines of the text handed to parse_git_config_output.
MaxLines == 3

\* Largest number of whitespace characters put before, and after, a key
\* handed to resolve_category_id.
MaxPad == 1

(***************************************************************************)
(* Characters and the str methods the parser uses                          *)
(***************************************************************************)

\* The characters of the modelled texts, in code-point order.
CharOrder ==
    << "\t", "\n", " ", "\"", "*", "-", ".", "/",
       "0", "1", "2", "3", "4", "5", "6", "7", "8", "9", ":", "=", "?",
       "A", "B", "C", "D", "E", "F", "G", "H", "I", "J", "K", "L", "M",
       "N", "O", "P", "Q", "R", "S", "T", "U", "V", "W", "X", "Y", "Z",
       "a", "b", "c", "d", "e", "f", "g", "h", "i", "j", "k", "l", "m",
       "n", "o", "p", "q", "r", "s", "t", "u", "v", "w", "x", "y", "z" >>

Ord ==
    [c \in {CharOrder[i] : i \in 1..Len(CharOrder)} |->
        CHOOSE i \in 1..Len(CharOrder) : CharOrder[i] = c]

UpperChars ==
    {"A", "B", "C", "D", "E", "F", "G", "H", "I", "J", "K", "L", "M",
     "N", "O", "P", "Q", "R", "S", "T", "U", "V", "W", "X", "Y", "Z"}

LowerChars == {CharOrder[Ord[c] + 26] : c \in UpperChars}

DigitChars == {"0", "1", "2", "3", "4", "5", "6", "7", "8", "9"}

\* str.isspace for the characters of the model.
IsSpace(c) == c \in {" ", "\t", "\n"}

\* str.lower
Lower(s) ==
    [i \in 1..Len(s) |-> IF s[i] \in UpperChars THEN CharOrder[Ord[s[i]] + 26] ELSE s[i]]

Drop(s, n) == SubSeq(s, n + 1, Len(s))

RECURSIVE LStripSet(_, _)
LStripSet(s, cs) ==
    IF s # <<>> /\ s[1] \in cs THEN LStripSet(Tail(s), cs) ELSE s

RECURSIVE RStripSet(_, _)
RStripSet(s, cs) ==
    IF s # <<>> /\ s[Len(s)] \in cs THEN RStripSet(SubSeq(s, 1, Len(s) - 1), cs) ELSE s

\* str.strip(), str.strip('"') and str.rstrip("\n")
Strip(s) == RStripSet(LStripSet(s, {" ", "\t", "\n"}), {" ", "\t", "\n"})
StripQuotes(s) == RStripSet(LStripSet(s, {"\""}), {"\""})
RStripNewline(s) == RStripSet(s, {"\n"})

StartsWith(s, p) == Len(s) >= Len(p) /\ SubSeq(s, 1, Len(p)) = p

\* Index of the first occurrence of character c in s, 0 when there is none.
RECURSIVE Find(_, _, _)
Find(s, c, i) ==
    IF i > Len(s) THEN 0 ELSE IF s[i] = c THEN i ELSE Find(s, c, i + 1)

\* str.splitlines() for texts whose only line boundary is "\n".
RECURSIVE SplitLines(_)
SplitLines(s) ==
    IF s = <<>> THEN <<>>
    ELSE LET i == Find(s, "\n", 1)
         IN  IF i = 0 THEN <<s>>
             ELSE <<SubSeq(s, 1, i - 1)>> \o SplitLines(Drop(s, i))

\* Length of the leading run of non-whitespace characters of s.
RECURSIVE TokenLen(_)
TokenLen(s) ==
    IF s = <<>> \/ IsSpace(s[1]) THEN 0 ELSE 1 + TokenLen(Tail(s))

\* str.split(None, maxsplit)
RECURSIVE SplitWs(_, _)
SplitWs(s, maxsplit) ==
    LET t == LStripSet(s, {" ", "\t", "\n"})
    IN  IF t = <<>> THEN <<>>
        ELSE IF maxsplit = 0 THEN <<t>>
        ELSE LET n == TokenLen(t)
             IN  <<SubSeq(t, 1, n)>> \o SplitWs(Drop(t, n), maxsplit - 1)

\* Python's < on str: lexicographic by code point.
RECURSIVE StrLess(_, _)
StrLess(a, b) ==
    IF b = <<>> THEN FALSE
    ELSE IF a = <<>> THEN TRUE
    ELSE IF a[1] # b[1] THEN Ord[a[1]] < Ord[b[1]]
    ELSE StrLess(Tail(a), Tail(b))

\* fnmatch.fnmatchcase for patterns made of literals, "*" and "?".
RECURSIVE fnmatchcase(_, _)
fnmatchcase(name, pat) ==
    IF pat = <<>> THEN name = <<>>
    ELSE IF pat[1] = "*"
         THEN \E k \in 0..Len(name) : fnmatchcase(Drop(name, k), Tail(pat))
    ELSE IF name = <<>> THEN FALSE
    ELSE IF pat[1] = "?" \/ pat[1] = name[1]
         THEN fnmatchcase(Tail(name), Tail(pat))
    ELSE FALSE

(***************************************************************************)
(* models.py: scopes and key validation                                    *)
(***************************************************************************)

Scopes == {"system", "global", "local"}

_SCOPE_PRECEDENCE == [s \in Scopes |-> CASE s = "system" -> 0 [] s = "global" -> 1 [] s = "local" -> 2]

precedence(scope) == _SCOPE_PRECEDENCE[scope]

\* The str value of each ConfigScope member.
ScopeValue ==
    [s \in Scopes |->
        CASE s = "system" -> <<"s", "y", "s", "t", "e", "m">>
          [] s = "global" -> <<"g", "l", "o", "b", "a", "l">>
          [] s = "local"  -> <<"l", "o", "c", "a", "l">>]

\* ConfigScope.from_git: the member whose value is the token, stripped and
\* lower-cased; "ValidationError" when there is none.
from_git(value) ==
    LET normalized == Lower(Strip(value))
    IN  IF \E s \in Scopes : ScopeValue[s] = normalized
        THEN [ok |-> TRUE, scope |-> CHOOSE s \in Scopes : ScopeValue[s] = normalized]
        ELSE [ok |-> FALSE, scope |-> "system"]

\* _KEY_PATTERN.fullmatch: one or more of letters, digits, "." and "-".
_KEY_PATTERN(value) ==
    /\ value # <<>>
    /\ \A i \in 1..Len(value) :
          value[i] \in UpperChars \cup LowerChars \cup DigitChars \cup {".", "-"}

(***************************************************************************)
(* categories.py: the category table and resolve_category_id               *)
(***************************************************************************)

UNCATEGORIZED_CATEGORY_id == <<"u", "n", "c", "a", "t", "e", "g", "o", "r", "i", "z", "e", "d">>

_DEFAULT_CATEGORIES ==
    << [id   |-> <<"u", "s", "e", "r", "-", "i", "d", "e", "n", "t", "i", "t", "y">>,
        keys |-> << <<"u", "s", "e", "r", ".", "n", "a", "m", "e">>,
                    <<"u", "s", "e", "r", ".", "e", "m", "a", "i", "l">>,
                    <<"u", "s", "e", "r", ".", "s", "i", "g", "n", "i", "n", "g", "k", "e", "y">> >>],
       [id   |-> <<"c", "r", "e", "d", "e", "n", "t", "i", "a", "l", "-", "m", "a", "n", "a", "g", "e", "m", "e", "n", "t">>,
        keys |-> << <<"c", "r", "e", "d", "e", "n", "t", "i", "a", "l", ".", "h", "e", "l", "p", "e", "r">>,
                    <<"c", "r", "e", "d", "e", "n", "t", "i", "a", "l", ".", "u", "s", "e", "H", "t", "t", "p", "P", "a", "t", "h">> >>],
       [id   |-> <<"c", "o", "m", "m", "i", "t", "-", "s", "i", "g", "n", "i", "n", "g">>,
        keys |-> << <<"u", "s", "e", "r", ".", "s", "i", "g", "n", "i", "n", "g", "k", "e", "y">>,
                    <<"c", "o", "m", "m", "i", "t", ".", "g", "p", "g", "s", "i", "g", "n">>,
                    <<"g", "p", "g", ".", "f", "o", "r", "m", "a", "t">> >>],
       [id   |-> <<"c", "o", "r", "e", "-", "b", "e", "h", "a", "v", "i", "o", "r">>,
        keys |-> << <<"c", "o", "r", "e", ".", "*">>,
                    <<"i", "n", "i", "t", ".", "d", "e", "f", "a", "u", "l", "t", "b", "r", "a", "n", "c", "h">> >>],
       [id   |-> <<"r", "e", "m", "o", "t", "e", "-", "s", "e", "t", "t", "i", "n", "g", "s">>,
        keys |-> << <<"r", "e", "m", "o", "t", "e", ".", "*">>,
                    <<"b", "r", "a", "n", "c", "h", ".", "*">> >>],
       [id   |-> <<"c", "u", "s", "t", "o", "m", "-", "c", "a", "p", "a", "b", "i", "l", "i", "t", "i", "e", "s">>,
        keys |-> << <<"a", "l", "i", "a", "s", ".", "*">> >>] >>

\* The (key_pattern, category.id) pairs in the order the module-level loop
\* visits them.
RECURSIVE PatternPairs(_)
PatternPairs(cats) ==
    IF cats = <<>> THEN <<>>
    ELSE [i \in 1..Len(cats[1].keys) |-> <<cats[1].keys[i], cats[1].id>>]
         \o PatternPairs(Tail(cats))

IsWildcard(pattern) == \E i \in 1..Len(pattern) : pattern[i] \in {"*", "?"}

_WILDCARD_PATTERNS == SelectSeq(PatternPairs(_DEFAULT_CATEGORIES), LAMBDA p : IsWildcard(p[1]))

\* _EXPLICIT_KEY_INDEX[key]: a later assignment to the same dict key replaces
\* the earlier one.  Its pairs are kept in assignment order.
ExplicitPairs == SelectSeq(PatternPairs(_DEFAULT_CATEGORIES), LAMBDA p : ~IsWildcard(p[1]))

InExplicitKeyIndex(key) == \E i \in 1..Len(ExplicitPairs) : ExplicitPairs[i][1] = key

\* _EXPLICIT_KEY_INDEX keeping the first assignment to a key.
_EXPLICIT_KEY_INDEX_First(key) ==
    LET first == CHOOSE i \in 1..Len(ExplicitPairs) :
                     /\ ExplicitPairs[i][1] = key
                     /\ \A j \in 1..(i - 1) : ExplicitPairs[j][1] # key
    IN  ExplicitPairs[first][2]

_EXPLICIT_KEY_INDEX(key) ==
    LET last == CHOOSE i \in 1..Len(ExplicitPairs) :
                    /\ ExplicitPairs[i][1] = key
                    /\ \A j \in (i + 1)..Len(ExplicitPairs) : ExplicitPairs[j][1] # key
    IN  ExplicitPairs[last][2]

\* resolve_category_id matching the glob patterns without regard to case
\* (fnmatch on a case-insensitive platform instead of fnmatchcase).
resolve_category_id_IgnoreCase(config_key) ==
    LET normalized_key == Strip(config_key)
        matches == {i \in 1..Len(_WILDCARD_PATTERNS) :
                        fnmatchcase(Lower(normalized_key), Lower(_WILDCARD_PATTERNS[i][1]))}
    IN  IF normalized_key = <<>> THEN UNCATEGORIZED_CATEGORY_id
        ELSE IF InExplicitKeyIndex(normalized_key) THEN _EXPLICIT_KEY_INDEX(normalized_key)
        ELSE IF matches # {}
             THEN _WILDCARD_PATTERNS[CHOOSE i \in matches : \A j \in matches : i <= j][2]
        ELSE UNCATEGORIZED_CATEGORY_id

resolve_category_id(config_key) ==
    LET normalized_key == Strip(config_key)
        matches == {i \in 1..Len(_WILDCARD_PATTERNS) :
                        fnmatchcase(normalized_key, _WILDCARD_PATTERNS[i][1])}
    IN  IF normalized_key = <<>> THEN UNCATEGORIZED_CATEGORY_id
        ELSE IF InExplicitKeyIndex(normalized_key) THEN _EXPLICIT_KEY_INDEX(normalized_key)
        ELSE IF matches # {}
             THEN _WILDCARD_PATTERNS[CHOOSE i \in matches : \A j \in matches : i <= j][2]
        ELSE UNCATEGORIZED_CATEGORY_id

(***************************************************************************)
(* parser.py: _parse_records and the functions it calls                    *)
(***************************************************************************)

\* Exceptions: gitcfg's ConfigurationError and ValidationError, and pydantic's
\* ValidationError (raised by a model's field validator).  msg names the
\* raise statement.
NoError == [kind |-> "none", msg |-> "none"]
Raise(kind, msg) == [kind |-> kind, msg |-> msg]

\* _split_line: the three parts, or ConfigurationError.
_split_line(line) ==
    LET parts == SplitWs(line, 2)
    IN  IF Len(parts) # 3
        THEN [error |-> Raise("ConfigurationError", "Unexpected git config output format"),
              parts |-> <<>>]
        ELSE [error |-> NoError, parts |-> parts]

FilePrefix == <<"f", "i", "l", "e", ":">>

\* The working directory that Path.resolve joins a relative path to.
Cwd == <<"/", "w">>

is_absolute(path) == path # <<>> /\ path[1] = "/"

resolve(path) == IF is_absolute(path) THEN path ELSE Cwd \o <<"/">> \o path

\* _parse_origin, for origin tokens "file:<path>" whose path has no "//",
\* "?", "#", "%" or "~" (urlparse then yields the text after "file:" as the
\* path and no netloc), and for tokens without the "file:" prefix.
_parse_origin(token) ==
    LET cleaned  == Strip(token)
        raw_path == Drop(cleaned, Len(FilePrefix))
    IN  IF StartsWith(cleaned, FilePrefix)
        THEN IF raw_path = <<>>
             THEN [error |-> Raise("ConfigurationError", "Origin path missing in git output"),
                   origin |-> <<>>, file_origin |-> TRUE]
             ELSE [error |-> NoError, origin |-> resolve(raw_path), file_origin |-> TRUE]
        ELSE [error |-> NoError, origin |-> StripQuotes(cleaned), file_origin |-> FALSE]

\* _parse_key_value without the empty-key check.
_parse_key_value_NoEmptyCheck(payload) ==
    LET eq    == Find(payload, "=", 1)
        key   == Strip(IF eq > 0 THEN SubSeq(payload, 1, eq - 1) ELSE payload)
        value == IF eq > 0 THEN Drop(payload, eq) ELSE <<>>
    IN  [error |-> NoError, key |-> key, value |-> RStripNewline(value)]

\* _parse_key_value splitting on the last "=" (rsplit) instead of the first.
_parse_key_value_LastEq(payload) ==
    LET eqs   == {i \in 1..Len(payload) : payload[i] = "="}
        eq    == IF eqs = {} THEN 0 ELSE CHOOSE i \in eqs : \A j \in eqs : j <= i
        key   == Strip(IF eq > 0 THEN SubSeq(payload, 1, eq - 1) ELSE payload)
        value == IF eq > 0 THEN Drop(payload, eq) ELSE <<>>
    IN  IF key = <<>>
        THEN [error |-> Raise("ConfigurationError", "Encountered git configuration entry with empty key"),
              key |-> <<>>, value |-> <<>>]
        ELSE [error |-> NoError, key |-> key, value |-> RStripNewline(value)]

\* _parse_key_value
_parse_key_value(payload) ==
    LET eq    == Find(payload, "=", 1)
        key   == Strip(IF eq > 0 THEN SubSeq(payload, 1, eq - 1) ELSE payload)
        value == IF eq > 0 THEN Drop(payload, eq) ELSE <<>>
    IN  IF key = <<>>
        THEN [error |-> Raise("ConfigurationError", "Encountered git configuration entry with empty key"),
              key |-> <<>>, value |-> <<>>]
        ELSE [error |-> NoError, key |-> key, value |-> RStripNewline(value)]

\* ParseLine calling _parse_key_value before from_git and _parse_origin.
ParseLine_KeyFirst(raw_line) ==
    LET line   == Strip(raw_line)
        split  == _split_line(line)
        scope  == from_git(split.parts[1])
        origin == _parse_origin(split.parts[2])
        kv     == _parse_key_value(split.parts[3])
    IN  IF line = <<>> THEN [error |-> NoError, records |-> <<>>]
        ELSE IF split.error # NoError THEN [error |-> split.error, records |-> <<>>]
        ELSE IF kv.error # NoError THEN [error |-> kv.error, records |-> <<>>]
        ELSE IF ~scope.ok
             THEN [error |-> Raise("ValidationError", "Unsupported Git scope"), records |-> <<>>]
        ELSE IF origin.error # NoError THEN [error |-> origin.error, records |-> <<>>]
        ELSE [error   |-> NoError,
              records |-> << [scope |-> scope.scope, origin |-> origin.origin, key |-> kv.key,
                              value |-> kv.value, file_origin |-> origin.file_origin] >>]

\* ParseLine without the blank-line skip: a blank line reaches _split_line.
ParseLine_NoBlankSkip(raw_line) ==
    LET line   == Strip(raw_line)
        split  == _split_line(line)
        scope  == from_git(split.parts[1])
        origin == _parse_origin(split.parts[2])
        kv     == _parse_key_value(split.parts[3])
    IN  IF split.error # NoError THEN [error |-> split.error, records |-> <<>>]
        ELSE IF ~scope.ok
             THEN [error |-> Raise("ValidationError", "Unsupported Git scope"), records |-> <<>>]
        ELSE IF origin.error # NoError THEN [error |-> origin.error, records |-> <<>>]
        ELSE IF kv.error # NoError THEN [error |-> kv.error, records |-> <<>>]
        ELSE [error   |-> NoError,
              records |-> << [scope |-> scope.scope, origin |-> origin.origin, key |-> kv.key,
                              value |-> kv.value, file_origin |-> origin.file_origin] >>]

\* The body of the loop of _parse_records for one raw line: skipped (blank),
\* a record, or the first exception raised, in the order the calls are made.
ParseLine(raw_line) ==
    LET line   == Strip(raw_line)
        split  == _split_line(line)
        scope  == from_git(split.parts[1])
        origin == _parse_origin(split.parts[2])
        kv     == _parse_key_value(split.parts[3])
    IN  IF line = <<>> THEN [error |-> NoError, records |-> <<>>]
        ELSE IF split.error # NoError THEN [error |-> split.error, records |-> <<>>]
        ELSE IF ~scope.ok
             THEN [error |-> Raise("ValidationError", "Unsupported Git scope"), records |-> <<>>]
        ELSE IF origin.error # NoError THEN [error |-> origin.error, records |-> <<>>]
        ELSE IF kv.error # NoError THEN [error |-> kv.error, records |-> <<>>]
        ELSE [error   |-> NoError,
              records |-> << [scope |-> scope.scope, origin |-> origin.origin, key |-> kv.key,
                              value |-> kv.value, file_origin |-> origin.file_origin] >>]

RECURSIVE ParseLines(_)
ParseLines(lines) ==
    IF lines = <<>> THEN [error |-> NoError, records |-> <<>>]
    ELSE LET first == ParseLine(lines[1])
             rest  == ParseLines(Tail(lines))
         IN  IF first.error # NoError THEN first
             ELSE IF rest.error # NoError THEN rest
             ELSE [error |-> NoError, records |-> first.records \o rest.records]

_parse_records(output) == ParseLines(SplitLines(output))


\* The modelled filesystem: Path.exists and os.access(path, os.W_OK).
exists(path, filesystem) == path \in filesystem.exists
is_writable(path, filesystem) == path \in filesystem.writable

\* dict insertion order: the distinct elements of s in first-seen order.
RECURSIVE Dedup(_)
Dedup(s) ==
    IF s = <<>> THEN <<>>
    ELSE LET d == Dedup(SubSeq(s, 1, Len(s) - 1))
         IN  IF \E i \in 1..Len(d) : d[i] = s[Len(s)] THEN d ELSE Append(d, s[Len(s)])

\* sorted(): a stable sort.  lt[i, j] says that the sort key of s[i] is less
\* than that of s[j]; an element goes after those with a smaller key and
\* after the earlier ones with an equal key.
StableSort(s, lt) ==
    LET rank(i) == 1 + Cardinality({j \in 1..Len(s) : lt[j, i] \/ (~lt[i, j] /\ j < i)})
    IN  [r \in 1..Len(s) |-> s[CHOOSE i \in 1..Len(s) : rank(i) = r]]

Reverse(s) == [i \in 1..Len(s) |-> s[Len(s) + 1 - i]]

RECURSIVE Flatten(_)
Flatten(ss) == IF ss = <<>> THEN <<>> ELSE ss[1] \o Flatten(Tail(ss))

\* str(n) for n >= 0
RECURSIVE Decimal(_)
Decimal(n) ==
    IF n < 10 THEN <<CharOrder[Ord["0"] + n]>>
    ELSE Decimal(n \div 10) \o <<CharOrder[Ord["0"] + (n % 10)]>>

\* The f-string of the duplicate annotation, as its pieces.
DuplicateAnnotation(duplicate_total, scope) ==
    << Decimal(duplicate_total), " values defined at ", ScopeValue[scope],
       " scope; using the most recent definition." >>

\* PairOf keyed by the key alone, whatever the scope.
PairOf_KeyOnly(record) == <<record.key, "local">>

PairOf(record) == <<record.key, record.scope>>

\* key_scope_map keeping the first record of a pair instead of the last.
key_scope_map_First(recs, pair) ==
    recs[CHOOSE i \in 1..Len(recs) :
            /\ PairOf(recs[i]) = pair
            /\ \A j \in 1..(i - 1) : PairOf(recs[j]) # pair]

\* The keys of key_scope_map in insertion order, its value for a pair (the
\* last record assigned) and duplicate_counts[pair].
key_scope_pairs(recs) == Dedup([i \in 1..Len(recs) |-> PairOf(recs[i])])

key_scope_map(recs, pair) ==
    recs[CHOOSE i \in 1..Len(recs) :
            /\ PairOf(recs[i]) = pair
            /\ \A j \in (i + 1)..Len(recs) : PairOf(recs[j]) # pair]

duplicate_counts(recs, pair) == Cardinality({i \in 1..Len(recs) : PairOf(recs[i]) = pair})

\* ConfigEntry(...) as _build_entries constructs it: the field validators
\* accept the key iff it matches _KEY_PATTERN and resolve a relative origin;
\* is_active and overridden_by take their defaults.
ConfigEntryValid(record) == _KEY_PATTERN(record.key)

ConfigEntry(record, annotations) ==
    [key           |-> record.key,
     value         |-> record.value,
     scope         |-> record.scope,
     origin        |-> resolve(record.origin),
     category_id   |-> resolve_category_id(record.key),
     is_active     |-> FALSE,
     overridden_by |-> <<>>,
     annotations   |-> annotations]

\* ScopeLess with the precedence order inverted.
ScopeLess_Descending(a, b) == precedence(a.scope) > precedence(b.scope)

ScopeLess(a, b) == precedence(a.scope) < precedence(b.scope)

\* sorted(..., key=lambda item: item.scope.precedence)
SortedByScope(s) == StableSort(s, [i, j \in 1..Len(s) |-> ScopeLess(s[i], s[j])])

\* NormalizeKeyEntries with the active flag on the first entry in precedence
\* order instead of the last.
NormalizeKeyEntries_FirstActive(entry_list) ==
    LET ordered == SortedByScope(entry_list)
    IN  [index \in 1..Len(ordered) |->
            LET remaining     == SubSeq(ordered, index + 1, Len(ordered))
                higher_scopes == Reverse([i \in 1..Len(remaining) |-> remaining[i].scope])
            IN  [ordered[index] EXCEPT
                    !.overridden_by = higher_scopes,
                    !.is_active = IF index = 1 THEN TRUE ELSE @]]

\* NormalizeKeyEntries without reversed(): overrides listed in ascending
\* precedence.
NormalizeKeyEntries_AscendingOverrides(entry_list) ==
    LET ordered == SortedByScope(entry_list)
    IN  [index \in 1..Len(ordered) |->
            LET remaining     == SubSeq(ordered, index + 1, Len(ordered))
                higher_scopes == [i \in 1..Len(remaining) |-> remaining[i].scope]
            IN  [ordered[index] EXCEPT
                    !.overridden_by = higher_scopes,
                    !.is_active = IF higher_scopes = <<>> THEN TRUE ELSE @]]

\* NormalizeKeyEntries setting is_active on every entry, overridden or not.
NormalizeKeyEntries_AllActive(entry_list) ==
    LET ordered == SortedByScope(entry_list)
    IN  [index \in 1..Len(ordered) |->
            LET remaining     == SubSeq(ordered, index + 1, Len(ordered))
                higher_scopes == Reverse([i \in 1..Len(remaining) |-> remaining[i].scope])
            IN  [ordered[index] EXCEPT
                    !.overridden_by = higher_scopes,
                    !.is_active = TRUE]]

\* The loop body over entries_by_key: order one key's entries by scope
\* precedence, then set overridden_by and is_active on copies.
NormalizeKeyEntries(entry_list) ==
    LET ordered == SortedByScope(entry_list)
    IN  [index \in 1..Len(ordered) |->
            LET remaining     == SubSeq(ordered, index + 1, Len(ordered))
                higher_scopes == Reverse([i \in 1..Len(remaining) |-> remaining[i].scope])
            IN  [ordered[index] EXCEPT
                    !.overridden_by = higher_scopes,
                    !.is_active = IF higher_scopes = <<>> THEN TRUE ELSE @]]

\* EntrySortLess without the category: the sort key (key, scope precedence).
EntrySortLess_KeyFirst(a, b) ==
    IF a.key # b.key THEN StrLess(a.key, b.key)
    ELSE precedence(a.scope) < precedence(b.scope)

\* The sort key (category_id, key, scope precedence) compared as tuples.
EntrySortLess(a, b) ==
    IF a.category_id # b.category_id THEN StrLess(a.category_id, b.category_id)
    ELSE IF a.key # b.key THEN StrLess(a.key, b.key)
    ELSE precedence(a.scope) < precedence(b.scope)

\* sorted(..., key=lambda item: (item.category_id, item.key, item.scope.precedence))
SortedByEntryKey(s) == StableSort(s, [i, j \in 1..Len(s) |-> EntrySortLess(s[i], s[j])])

\* scope_candidates[scope]: the origins of the file-backed records of the
\* scope, in input order.
scope_candidates(recs, scope) ==
    LET cands == SelectSeq(recs, LAMBDA r : r.file_origin /\ r.scope = scope)
    IN  [i \in 1..Len(cands) |-> cands[i].origin]

\* ScopeMetadataOf keeping the last candidate that exists (no break).
ScopeMetadataOf_LastCandidate(recs, filesystem) ==
    LET found(scope) == {i \in 1..Len(scope_candidates(recs, scope)) :
                            exists(scope_candidates(recs, scope)[i], filesystem)}
        pick(scope)  == scope_candidates(recs, scope)[
                            CHOOSE i \in found(scope) : \A j \in found(scope) : j <= i]
    IN  [scope \in {s \in Scopes : found(s) # {}} |->
            [scope       |-> scope,
             path        |-> pick(scope),
             is_writable |-> is_writable(pick(scope), filesystem)]]

\* The metadata loop: per scope the first candidate that exists.
ScopeMetadataOf(recs, filesystem) ==
    LET found(scope) == {i \in 1..Len(scope_candidates(recs, scope)) :
                            exists(scope_candidates(recs, scope)[i], filesystem)}
        pick(scope)  == scope_candidates(recs, scope)[
                            CHOOSE i \in found(scope) : \A j \in found(scope) : i <= j]
    IN  [scope \in {s \in Scopes : found(s) # {}} |->
            [scope       |-> scope,
             path        |-> pick(scope),
             is_writable |-> is_writable(pick(scope), filesystem)]]

_build_entries(recs, filesystem) ==
    LET pairs       == key_scope_pairs(recs)
        retained    == [i \in 1..Len(pairs) |-> key_scope_map(recs, pairs[i])]
        provisional ==
            [i \in 1..Len(pairs) |->
                ConfigEntry(retained[i],
                            IF duplicate_counts(recs, pairs[i]) > 1
                            THEN <<DuplicateAnnotation(duplicate_counts(recs, pairs[i]),
                                                       pairs[i][2])>>
                            ELSE <<>>)]
        keys        == Dedup([i \in 1..Len(provisional) |-> provisional[i].key])
        normalized_entries ==
            Flatten([k \in 1..Len(keys) |->
                NormalizeKeyEntries(SelectSeq(provisional, LAMBDA e : e.key = keys[k]))])
    IN  IF \E i \in 1..Len(retained) : ~ConfigEntryValid(retained[i])
        THEN [error   |-> Raise("pydantic.ValidationError", "Invalid git configuration key format"),
              entries |-> <<>>, scopes |-> <<>>]
        ELSE [error   |-> NoError,
              entries |-> SortedByEntryKey(normalized_entries),
              scopes  |-> ScopeMetadataOf(recs, filesystem)]

\* EffectiveConfig(...): _ensure_consistency requires the active entry among
\* all_entries and stores all_entries sorted by scope precedence.
EffectiveConfig(key, active_entry, all_entries) ==
    [key |-> key, active_entry |-> active_entry, all_entries |-> SortedByScope(all_entries)]

_build_effective_map(entry_seq) ==
    LET keys         == {entry_seq[i].key : i \in 1..Len(entry_seq)}
        grouped(key) == SelectSeq(entry_seq, LAMBDA e : e.key = key)
        actives(key) == SelectSeq(grouped(key), LAMBDA e : e.is_active)
    IN  IF \E key \in keys : actives(key) = <<>>
        THEN [error |-> Raise("ConfigurationError", "No active entry detected for key"),
              effective_map |-> <<>>]
        ELSE [error |-> NoError,
              effective_map |->
                  [key \in keys |-> EffectiveConfig(key, actives(key)[1], grouped(key))]]

\* ConfigSnapshot._validate_snapshot
_validate_snapshot(entry_seq, effective) ==
    /\ \A i, j \in 1..Len(entry_seq) :
          i # j => <<entry_seq[i].key, entry_seq[i].scope>> # <<entry_seq[j].key, entry_seq[j].scope>>
    /\ {entry_seq[i].key : i \in 1..Len(entry_seq)} \subseteq DOMAIN effective

\* ConfigSnapshot(scopes=..., entries=..., effective_map=...): the validated
\* snapshot, or pydantic's error.
ConfigSnapshot(scope_map, entry_seq, effective) ==
    IF _validate_snapshot(entry_seq, effective)
    THEN [error    |-> NoError,
          snapshot |-> [scopes |-> scope_map, entries |-> entry_seq, effective_map |-> effective]]
    ELSE [error    |-> Raise("pydantic.ValidationError", "snapshot"),
          snapshot |-> [scopes |-> <<>>, entries |-> <<>>, effective_map |-> <<>>]]

\* parse_git_config_output as one function of the text and the filesystem:
\* the snapshot returned or the first exception raised.
parse_git_config_output(text, filesystem) ==
    LET parsed == _parse_records(text)
        built  == _build_entries(parsed.records, filesystem)
        mapped == _build_effective_map(built.entries)
        none   == [scopes |-> <<>>, entries |-> <<>>, effective_map |-> <<>>]
    IN  IF parsed.error # NoError THEN [error |-> parsed.error, snapshot |-> none]
        ELSE IF parsed.records = <<>> THEN ConfigSnapshot(<<>>, <<>>, <<>>)
        ELSE IF built.error # NoError THEN [error |-> built.error, snapshot |-> none]
        ELSE IF mapped.error # NoError THEN [error |-> mapped.error, snapshot |-> none]
        ELSE ConfigSnapshot(built.scopes, built.entries, mapped.effective_map)

(***************************************************************************)
(* The inputs: texts of at most MaxLines lines, each one of these          *)
(***************************************************************************)

\* 'system file:/s a.b=1'
SysLine ==
    <<"s", "y", "s", "t", "e", "m", " ", "f", "i", "l", "e", ":", "/", "s", " ", "a", ".", "b", "=", "1">>

\* 'global file:/g a.b=2'
GlobalLine ==
    <<"g", "l", "o", "b", "a", "l", " ", "f", "i", "l", "e", ":", "/", "g", " ", "a", ".", "b", "=", "2">>

\* 'local file:/l a.b=3'
LocalLine ==
    <<"l", "o", "c", "a", "l", " ", "f", "i", "l", "e", ":", "/", "l", " ", "a", ".", "b", "=", "3">>

\* 'GLOBAL file:/g a.b=x=/y'
DupGlobalLine ==
    <<"G", "L", "O", "B", "A", "L", " ", "f", "i", "l", "e", ":", "/", "g", " ", "a", ".", "b", "=", "x", "=", "/", "y">>

\* ' local\tfile:/l  core.x '
NoValueLine ==
    <<" ", "l", "o", "c", "a", "l", "\t", "f", "i", "l", "e", ":", "/", "l", " ", " ", "c", "o", "r", "e", ".", "x", " ">>

\* 'system "o" core.x=on'
NonFileLine ==
    <<"s", "y", "s", "t", "e", "m", " ", "\"", "o", "\"", " ", "c", "o", "r", "e", ".", "x", "=", "o", "n">>

\* 'local file:/l branch.f/b.m=r/h'
SlashKeyLine ==
    <<"l", "o", "c", "a", "l", " ", "f", "i", "l", "e", ":", "/", "l", " ", "b", "r", "a", "n", "c", "h", ".", "f", "/", "b", ".", "m", "=", "r", "/", "h">>

\* ''
EmptyLine ==
    <<>>

\* ' \t'
BlankLine ==
    <<" ", "\t">>

\* 'global file:/g'
TwoTokenLine ==
    <<"g", "l", "o", "b", "a", "l", " ", "f", "i", "l", "e", ":", "/", "g">>

\* 'worktree file:/g a.b=c'
BadScopeLine ==
    <<"w", "o", "r", "k", "t", "r", "e", "e", " ", "f", "i", "l", "e", ":", "/", "g", " ", "a", ".", "b", "=", "c">>

\* 'global file:/g =v'
EmptyKeyLine ==
    <<"g", "l", "o", "b", "a", "l", " ", "f", "i", "l", "e", ":", "/", "g", " ", "=", "v">>

\* 'global file: a.b=c'
NoOriginPathLine ==
    <<"g", "l", "o", "b", "a", "l", " ", "f", "i", "l", "e", ":", " ", "a", ".", "b", "=", "c">>

LineSet ==
    { SysLine, GlobalLine, LocalLine, DupGlobalLine, NoValueLine, NonFileLine, SlashKeyLine,
      EmptyLine, BlankLine, TwoTokenLine, BadScopeLine, EmptyKeyLine, NoOriginPathLine }

\* "\n".join(lines)
RECURSIVE JoinLines(_)
JoinLines(lines) ==
    IF lines = <<>> THEN <<>>
    ELSE IF Len(lines) = 1 THEN lines[1]
    ELSE lines[1] \o <<"\n">> \o JoinLines(Tail(lines))

Texts == {JoinLines(ls) : ls \in UNION {[1..n -> LineSet] : n \in 0..MaxLines}}

PathS == <<"/", "s">>
PathG == <<"/", "g">>
PathL == <<"/", "l">>

\* Every configuration file present and writable; or only the global file
\* present, read-only.
Filesystems ==
    { [exists |-> {PathS, PathG, PathL}, writable |-> {PathS, PathG, PathL}],
      [exists |-> {PathG}, writable |-> {}] }

(***************************************************************************)
(* parse_git_config_output as a state machine                              *)
(***************************************************************************)

VARIABLES
    output,         \* the argument of parse_git_config_output
    fs,             \* the filesystem the call runs against
    pc,             \* "call", "parsed", "built", "mapped", "returned", "raised"
    records,        \* the list returned by _parse_records
    entries,        \* the entries returned by _build_entries
    scopes,         \* the scope metadata returned by _build_entries
    effective_map,  \* the mapping returned by _build_effective_map
    snapshot,       \* the ConfigSnapshot returned, when pc = "returned"
    error           \* the exception raised, when pc = "raised"

\* A call of resolve_category_id.
VARIABLES
    lookup_key,     \* its argument config_key
    lookup_pc,      \* "idle", "call", "returned"
    lookup_result   \* the category id returned

\* A call of read_config_snapshot.
VARIABLES
    runner,         \* "injected" when a runner argument was given, else "default"
    require_scope,  \* the scope required, or "none"
    timeout,        \* <<>> for None, else <<tenths of a second>>
    read_pc,        \* "idle", "start", "parsing", "probing", "returned", "raised"
    invocations,    \* the runner and run_git_command calls made so far, in order
    probe,          \* what the probe's run_git_command returned or raised
    read_error      \* the exception that left read_config_snapshot, when read_pc = "raised"

\* A run of the view command.
VARIABLES
    opt_scope,      \* --scope: "none" or a scope
    opt_category,   \* --category: <<>> for None, else <<the text given>>
    opt_search,     \* --search: <<>> for None, else <<the text given>>
    opt_format,     \* --format: "pretty" or "json"
    view_pc,        \* "idle", "start", "reading", "exited", "crashed"
    console,        \* what console.print was given, in order
    exit_code       \* <<>> while running, else <<the exit code of the process>>

\* A call of group_entries_by_category or of build_category_summaries.
VARIABLES
    cat_entries,    \* the argument entries
    cat_pc,         \* "idle", "call", "grouped", "summarised"
    grouped,        \* the dict returned by group_entries_by_category, in insertion order
    summaries       \* the list returned by build_category_summaries

\* A call of the ConfigSnapshot constructor.
VARIABLES
    ctor_entries,   \* the argument entries
    ctor_map,       \* the argument effective_map
    ctor_pc,        \* "idle", "call", "constructed", "raised"
    ctor_snapshot,  \* the snapshot constructed
    ctor_error      \* the exception raised, when ctor_pc = "raised"

\* A call of build_bundle_summaries.
VARIABLES
    given_summaries,    \* the argument category_summaries
    given_bundles,      \* the argument bundles: <<>> for None, else <<the sequence>>
    bundle_pc,          \* "idle", "call", "returned"
    bundle_summaries    \* the list returned

\* A call of build_config_table.
VARIABLES
    table_snapshot,     \* the argument snapshot
    table_scope,        \* the argument scope: "none" or a scope
    table_category_id,  \* the argument category_id: <<>> for None, else <<the id>>
    table_pc,           \* "idle", "call", "returned"
    table_rows          \* the rows of the table returned

parserVars == <<output, fs, pc, records, entries, scopes, effective_map, snapshot, error>>
lookupVars == <<lookup_key, lookup_pc, lookup_result>>
readVars == <<runner, require_scope, timeout, read_pc, invocations, probe, read_error>>
viewVars == <<opt_scope, opt_category, opt_search, opt_format, view_pc, console, exit_code>>
categoryVars == <<cat_entries, cat_pc, grouped, summaries>>
ctorVars == <<ctor_entries, ctor_map, ctor_pc, ctor_snapshot, ctor_error>>
bundleVars == <<given_summaries, given_bundles, bundle_pc, bundle_summaries>>
tableVars == <<table_snapshot, table_scope, table_category_id, table_pc, table_rows>>

vars == <<parserVars, lookupVars, readVars, viewVars, categoryVars, ctorVars, bundleVars, tableVars>>

\* The variables outside a call of parse_git_config_output, outside a call
\* of resolve_category_id and outside the body of read_config_snapshot.
NotParser == <<lookupVars, readVars, viewVars, categoryVars, ctorVars, bundleVars, tableVars>>
NotLookup == <<parserVars, readVars, viewVars, categoryVars, ctorVars, bundleVars, tableVars>>
NotRead == <<lookupVars, viewVars, categoryVars, ctorVars, bundleVars, tableVars>>
NotView == <<lookupVars, categoryVars, ctorVars, bundleVars, tableVars>>
NotCategories == <<parserVars, lookupVars, readVars, viewVars, ctorVars, bundleVars, tableVars>>
NotConstructor == <<parserVars, lookupVars, readVars, viewVars, categoryVars, bundleVars, tableVars>>
NotBundles == <<parserVars, lookupVars, readVars, viewVars, categoryVars, ctorVars, tableVars>>
NotTable == <<parserVars, lookupVars, readVars, viewVars, categoryVars, ctorVars, bundleVars>>

\* No call of resolve_category_id is under way.
LookupIdle ==
    /\ lookup_key = <<>>
    /\ lookup_pc = "idle"
    /\ lookup_result = <<>>

EmptySnapshot == [scopes |-> <<>>, entries |-> <<>>, effective_map |-> <<>>]

\* The probe was not run.
NoProbe == [error |-> NoError, returncode |-> 0, stdout |-> <<>>]

\* No call of read_config_snapshot is under way.
ReadIdle ==
    /\ runner = "default"
    /\ require_scope = "none"
    /\ timeout = <<>>
    /\ read_pc = "idle"
    /\ invocations = <<>>
    /\ probe = NoProbe
    /\ read_error = NoError

\* No ConfigSnapshot is being constructed outside parse_git_config_output.
ConstructorIdle ==
    /\ ctor_entries = <<>>
    /\ ctor_map = <<>>
    /\ ctor_pc = "idle"
    /\ ctor_snapshot = EmptySnapshot
    /\ ctor_error = NoError

\* No call of build_bundle_summaries is under way.
BundlesIdle ==
    /\ given_summaries = [mapping |-> FALSE, keys |-> <<>>, summaries |-> <<>>]
    /\ given_bundles = <<>>
    /\ bundle_pc = "idle"
    /\ bundle_summaries = <<>>

\* No call of build_config_table is under way.
TableIdle ==
    /\ table_snapshot = EmptySnapshot
    /\ table_scope = "none"
    /\ table_category_id = <<>>
    /\ table_pc = "idle"
    /\ table_rows = <<>>

\* No call of the grouping functions is under way.
CategoriesIdle ==
    /\ cat_entries = <<>>
    /\ cat_pc = "idle"
    /\ grouped = <<>>
    /\ summaries = <<>>

\* The view command is not running.
ViewIdle ==
    /\ opt_scope = "none"
    /\ opt_category = <<>>
    /\ opt_search = <<>>
    /\ opt_format = "pretty"
    /\ view_pc = "idle"
    /\ console = <<>>
    /\ exit_code = <<>>

\* No call of parse_git_config_output is under way.
ParserIdle ==
    /\ output = <<>>
    /\ fs = [exists |-> {}, writable |-> {}]
    /\ pc = "idle"
    /\ records = <<>>
    /\ entries = <<>>
    /\ scopes = <<>>
    /\ effective_map = <<>>
    /\ snapshot = EmptySnapshot
    /\ error = NoError

Init ==
    /\ output \in Texts
    /\ fs \in Filesystems
    /\ pc = "call"
    /\ records = <<>>
    /\ entries = <<>>
    /\ scopes = <<>>
    /\ effective_map = <<>>
    /\ snapshot = EmptySnapshot
    /\ error = NoError
    /\ LookupIdle
    /\ ReadIdle
    /\ ViewIdle
    /\ CategoriesIdle
    /\ ConstructorIdle
    /\ BundlesIdle
    /\ TableIdle

\* parser.py:35  records = _parse_records(output)
ParseRecords ==
    /\ pc = "call"
    /\ LET r == _parse_records(output)
       IN  /\ records' = r.records
           /\ error' = r.error
           /\ pc' = IF r.error # NoError THEN "raised" ELSE "parsed"
    /\ UNCHANGED <<output, fs, entries, scopes, effective_map, snapshot>>
    /\ UNCHANGED NotParser

\* parser.py:36-37  no records: return ConfigSnapshot(scopes={}, entries=[], effective_map={})
ReturnEmpty ==
    /\ pc = "parsed"
    /\ records = <<>>
    /\ LET r == ConfigSnapshot(<<>>, <<>>, <<>>)
       IN  /\ snapshot' = r.snapshot
           /\ error' = r.error
           /\ pc' = IF r.error # NoError THEN "raised" ELSE "returned"
    /\ UNCHANGED <<output, fs, records, entries, scopes, effective_map>>
    /\ UNCHANGED NotParser

\* parser.py:39  entries, scopes = _build_entries(records)
BuildEntries ==
    /\ pc = "parsed"
    /\ records # <<>>
    /\ LET r == _build_entries(records, fs)
       IN  /\ entries' = r.entries
           /\ scopes' = r.scopes
           /\ error' = r.error
           /\ pc' = IF r.error # NoError THEN "raised" ELSE "built"
    /\ UNCHANGED <<output, fs, records, effective_map, snapshot>>
    /\ UNCHANGED NotParser

\* parser.py:40  effective_map = _build_effective_map(entries)
BuildEffectiveMap ==
    /\ pc = "built"
    /\ LET r == _build_effective_map(entries)
       IN  /\ effective_map' = r.effective_map
           /\ error' = r.error
           /\ pc' = IF r.error # NoError THEN "raised" ELSE "mapped"
    /\ UNCHANGED <<output, fs, records, entries, scopes, snapshot>>
    /\ UNCHANGED NotParser

\* ReturnSnapshot handing the constructor only the entries of the scopes that
\* have metadata.
ReturnSnapshot_AvailableScopesOnly ==
    /\ pc = "mapped"
    /\ LET r == ConfigSnapshot(scopes,
                               SelectSeq(entries, LAMBDA e : e.scope \in DOMAIN scopes),
                               effective_map)
       IN  /\ snapshot' = r.snapshot
           /\ error' = r.error
           /\ pc' = IF r.error # NoError THEN "raised" ELSE "returned"
    /\ UNCHANGED <<output, fs, records, entries, scopes, effective_map>>
    /\ UNCHANGED NotParser

\* parser.py:41  return ConfigSnapshot(scopes=scopes, entries=entries, effective_map=effective_map)
ReturnSnapshot ==
    /\ pc = "mapped"
    /\ LET r == ConfigSnapshot(scopes, entries, effective_map)
       IN  /\ snapshot' = r.snapshot
           /\ error' = r.error
           /\ pc' = IF r.error # NoError THEN "raised" ELSE "returned"
    /\ UNCHANGED <<output, fs, records, entries, scopes, effective_map>>
    /\ UNCHANGED NotParser

Next ==
    \/ ParseRecords
    \/ ReturnEmpty
    \/ BuildEntries
    \/ BuildEffectiveMap
    \/ ReturnSnapshot

Spec == Init /\ [][Next]_vars

(***************************************************************************)
(* parse_git_config_output over configuration files that may be missing    *)
(* or read-only                                                            *)
(***************************************************************************)

\* 'global file:/h a.b=4'
OtherGlobalLine ==
    <<"g", "l", "o", "b", "a", "l", " ", "f", "i", "l", "e", ":", "/", "h", " ", "a", ".", "b", "=", "4">>

\* 'local\tfile:.git/config\tcore.x=1'
RepoLocalLine ==
    <<"l", "o", "c", "a", "l", "\t", "f", "i", "l", "e", ":", ".", "g", "i", "t", "/", "c", "o", "n", "f", "i", "g", "\t", "c", "o", "r", "e", ".", "x", "=", "1">>

PathH == <<"/", "h">>
PathRepo == Cwd \o <<"/", ".", "g", "i", "t", "/", "c", "o", "n", "f", "i", "g">>

ScopeLineSet == {GlobalLine, OtherGlobalLine, RepoLocalLine, NonFileLine}

ScopeTexts == {JoinLines(ls) : ls \in UNION {[1..n -> ScopeLineSet] : n \in 0..MaxLines}}

\* Each of the three files present or not, and writable or not when present.
ScopePaths == {PathG, PathH, PathRepo}

ScopeFilesystems ==
    {f \in [exists : SUBSET ScopePaths, writable : SUBSET ScopePaths] : f.writable \subseteq f.exists}

InitScopes ==
    /\ output \in ScopeTexts
    /\ fs \in ScopeFilesystems
    /\ pc = "call"
    /\ records = <<>>
    /\ entries = <<>>
    /\ scopes = <<>>
    /\ effective_map = <<>>
    /\ snapshot = EmptySnapshot
    /\ error = NoError
    /\ LookupIdle
    /\ ReadIdle
    /\ ViewIdle
    /\ CategoriesIdle
    /\ ConstructorIdle
    /\ BundlesIdle
    /\ TableIdle

SpecScopes == InitScopes /\ [][Next]_vars

(***************************************************************************)
(* parse_git_config_output over lines that fail more than one check        *)
(***************************************************************************)

\* 'worktree file: =v'
BadScopeNoOriginNoKeyLine ==
    <<"w", "o", "r", "k", "t", "r", "e", "e", " ", "f", "i", "l", "e", ":", " ", "=", "v">>

\* 'global file: =v'
NoOriginNoKeyLine ==
    <<"g", "l", "o", "b", "a", "l", " ", "f", "i", "l", "e", ":", " ", "=", "v">>

\* 'worktree file:/g =v'
BadScopeNoKeyLine ==
    <<"w", "o", "r", "k", "t", "r", "e", "e", " ", "f", "i", "l", "e", ":", "/", "g", " ", "=", "v">>

OrderLineSet ==
    { GlobalLine, TwoTokenLine, BadScopeLine, NoOriginPathLine, EmptyKeyLine,
      BadScopeNoOriginNoKeyLine, NoOriginNoKeyLine, BadScopeNoKeyLine }

OrderTexts == {JoinLines(ls) : ls \in UNION {[1..n -> OrderLineSet] : n \in 0..MaxLines}}

InitOrder ==
    /\ output \in OrderTexts
    /\ fs \in Filesystems
    /\ pc = "call"
    /\ records = <<>>
    /\ entries = <<>>
    /\ scopes = <<>>
    /\ effective_map = <<>>
    /\ snapshot = EmptySnapshot
    /\ error = NoError
    /\ LookupIdle
    /\ ReadIdle
    /\ ViewIdle
    /\ CategoriesIdle
    /\ ConstructorIdle
    /\ BundlesIdle
    /\ TableIdle

SpecOrder == InitOrder /\ [][Next]_vars

(***************************************************************************)
(* resolve_category_id as a state machine                                  *)
(***************************************************************************)

\* 'user.name'
UserNameKey ==
    <<"u", "s", "e", "r", ".", "n", "a", "m", "e">>

\* 'user.signingkey'
SigningKey ==
    <<"u", "s", "e", "r", ".", "s", "i", "g", "n", "i", "n", "g", "k", "e", "y">>

\* 'credential.useHttpPath'
UseHttpPathKey ==
    <<"c", "r", "e", "d", "e", "n", "t", "i", "a", "l", ".", "u", "s", "e", "H", "t", "t", "p", "P", "a", "t", "h">>

\* 'credential.usehttppath'
LowerUseHttpPathKey ==
    <<"c", "r", "e", "d", "e", "n", "t", "i", "a", "l", ".", "u", "s", "e", "h", "t", "t", "p", "p", "a", "t", "h">>

\* 'init.defaultbranch'
DefaultBranchKey ==
    <<"i", "n", "i", "t", ".", "d", "e", "f", "a", "u", "l", "t", "b", "r", "a", "n", "c", "h">>

\* 'core.editor'
CoreEditorKey ==
    <<"c", "o", "r", "e", ".", "e", "d", "i", "t", "o", "r">>

\* 'Core.editor'
CapitalCoreKey ==
    <<"C", "o", "r", "e", ".", "e", "d", "i", "t", "o", "r">>

\* 'core.'
CoreDotKey ==
    <<"c", "o", "r", "e", ".">>

\* 'core'
CoreOnlyKey ==
    <<"c", "o", "r", "e">>

\* 'remote.origin.url'
RemoteUrlKey ==
    <<"r", "e", "m", "o", "t", "e", ".", "o", "r", "i", "g", "i", "n", ".", "u", "r", "l">>

\* 'branch.main.merge'
BranchMergeKey ==
    <<"b", "r", "a", "n", "c", "h", ".", "m", "a", "i", "n", ".", "m", "e", "r", "g", "e">>

\* 'alias.co'
AliasKey ==
    <<"a", "l", "i", "a", "s", ".", "c", "o">>

\* 'xcore.a'
PrefixedCoreKey ==
    <<"x", "c", "o", "r", "e", ".", "a">>

\* 'a.b'
UnlistedKey ==
    <<"a", ".", "b">>

\* ''
EmptyKey ==
    <<>>

BaseKeys ==
    { UserNameKey, SigningKey, UseHttpPathKey, LowerUseHttpPathKey,
      DefaultBranchKey, CoreEditorKey, CapitalCoreKey, CoreDotKey,
      CoreOnlyKey, RemoteUrlKey, BranchMergeKey, AliasKey,
      PrefixedCoreKey, UnlistedKey, EmptyKey }

WhitespaceChars == {" ", "\t", "\n"}

\* Runs of at most MaxPad whitespace characters.
Pads == UNION {[1..n -> WhitespaceChars] : n \in 0..MaxPad}

\* The keys looked up: each base key between two runs of whitespace.
LookupKeys == {pre \o base \o post : pre \in Pads, base \in BaseKeys, post \in Pads}

InitLookup ==
    /\ lookup_key \in LookupKeys
    /\ lookup_pc = "call"
    /\ lookup_result = <<>>
    /\ ParserIdle
    /\ ReadIdle
    /\ ViewIdle
    /\ CategoriesIdle
    /\ ConstructorIdle
    /\ BundlesIdle
    /\ TableIdle

\* categories.py:155-169  resolve_category_id(config_key)
ResolveCategoryId ==
    /\ lookup_pc = "call"
    /\ lookup_result' = resolve_category_id(lookup_key)
    /\ lookup_pc' = "returned"
    /\ UNCHANGED lookup_key
    /\ UNCHANGED NotLookup

NextLookup ==
    \/ ResolveCategoryId

SpecLookup == InitLookup /\ [][NextLookup]_vars

(***************************************************************************)
(* git_config.py, subprocess_helper.py, validators.py:                     *)
(* read_config_snapshot as a state machine                                 *)
(***************************************************************************)

\* Largest number of lines of the text the config listing prints.
MaxListedLines == 2

_CONFIG_LIST_ARGS == <<"config", "--list", "--show-scope", "--show-origin">>

\* The arguments of the probe of _ensure_local_scope_available.
ProbeArgs == <<"rev-parse", "--is-inside-work-tree">>

\* Timeouts are counted in tenths of a second: validate_timeout's minimum
\* 0.1 and read_config_snapshot's default 10.0.
MinimumTimeout == 1
DefaultTimeout == 100

\* validate_timeout: None and numbers >= minimum pass.
validate_timeout(t) ==
    IF t # <<>> /\ t[1] < MinimumTimeout
    THEN Raise("ValidationError", "Timeout must be >= minimum seconds")
    ELSE NoError

\* What subprocess.run can do: raise TimeoutExpired or FileNotFoundError, or
\* complete with a return code and the text the process printed.
Completed(returncode, stdout) == [kind |-> "completed", returncode |-> returncode, stdout |-> stdout]
TimeoutExpired == [kind |-> "TimeoutExpired", returncode |-> 0, stdout |-> <<>>]
FileNotFoundError == [kind |-> "FileNotFoundError", returncode |-> 0, stdout |-> <<>>]

\* run_git_command(args, check=..., timeout=...) when subprocess.run does
\* `outcome`: the CompletedProcess returned or the exception raised.
run_git_command(outcome, check, t) ==
    IF validate_timeout(t) # NoError
    THEN [error |-> validate_timeout(t), returncode |-> 0, stdout |-> <<>>]
    ELSE IF outcome.kind = "TimeoutExpired"
    THEN [error |-> Raise("GitCommandError", "git command timed out"),
          returncode |-> 0, stdout |-> <<>>]
    ELSE IF outcome.kind = "FileNotFoundError"
    THEN [error |-> Raise("GitCommandError", "git executable not found"),
          returncode |-> 0, stdout |-> <<>>]
    ELSE IF check /\ outcome.returncode # 0
    THEN [error |-> Raise("GitCommandError", "git command failed"),
          returncode |-> 0, stdout |-> <<>>]
    ELSE [error |-> NoError, returncode |-> outcome.returncode, stdout |-> outcome.stdout]

\* ensure_scope_available returning early for an empty mapping (`if not
\* metadata` in place of `if metadata is None`).
ensure_scope_available_EmptyPasses(scope, metadata) ==
    IF DOMAIN metadata # {} /\ scope \notin DOMAIN metadata
    THEN Raise("ScopeNotAvailableError", "Scope is not available in this context")
    ELSE NoError

\* ensure_scope_available with a metadata mapping (never None here).
ensure_scope_available(scope, metadata) ==
    IF scope \notin DOMAIN metadata
    THEN Raise("ScopeNotAvailableError", "Scope is not available in this context")
    ELSE NoError

\* The texts git config --list prints: at most MaxListedLines of these lines.
ListedLineSet == {SysLine, GlobalLine, RepoLocalLine, TwoTokenLine, SlashKeyLine}

ListedTexts == {JoinLines(ls) : ls \in UNION {[1..n -> ListedLineSet] : n \in 0..MaxListedLines}}

\* git config --list: it prints a listing, or fails with exit code 128.
ListingOutcomes ==
    {TimeoutExpired, FileNotFoundError, Completed(128, <<>>)}
    \cup {Completed(0, text) : text \in ListedTexts}

\* git rev-parse --is-inside-work-tree: "true" in a work tree, "false" inside
\* the .git directory, exit code 128 outside a repository.
ProbeOutcomes ==
    { TimeoutExpired, FileNotFoundError,
      Completed(0, <<"t", "r", "u", "e", "\n">>), Completed(0, <<"f", "a", "l", "s", "e", "\n">>), Completed(128, <<>>) }

TimeoutValues == { <<>>, <<0>>, <<DefaultTimeout>> }

\* Every file present and writable; only the global file; none.
ReadFilesystems ==
    { [exists |-> {PathS, PathG, PathRepo}, writable |-> {PathS, PathG, PathRepo}],
      [exists |-> {PathG}, writable |-> {}],
      [exists |-> {}, writable |-> {}] }

InitRead ==
    /\ runner \in {"injected", "default"}
    /\ require_scope \in {"none"} \cup Scopes
    /\ timeout \in TimeoutValues
    /\ read_pc = "start"
    /\ invocations = <<>>
    /\ probe = NoProbe
    /\ read_error = NoError
    /\ output = <<>>
    /\ fs \in ReadFilesystems
    /\ pc = "idle"
    /\ records = <<>>
    /\ entries = <<>>
    /\ scopes = <<>>
    /\ effective_map = <<>>
    /\ snapshot = EmptySnapshot
    /\ error = NoError
    /\ LookupIdle
    /\ ViewIdle
    /\ CategoriesIdle
    /\ ConstructorIdle
    /\ BundlesIdle
    /\ TableIdle

\* One call of the runner argument or of run_git_command.
Invocation(by, args, t) == [by |-> by, args |-> args, timeout |-> t]

\* git_config.py:25, 44-45  output = runner(_CONFIG_LIST_ARGS, timeout), with
\* an injected runner that returns a text or raises; then line 26 calls
\* parse_git_config_output(output).
InvokeRunner ==
    /\ read_pc = "start"
    /\ runner = "injected"
    /\ invocations' = Append(invocations, Invocation("runner", _CONFIG_LIST_ARGS, timeout))
    /\ \/ /\ \E text \in ListedTexts : output' = text
          /\ pc' = "call"
          /\ read_pc' = "parsing"
          /\ UNCHANGED read_error
       \/ /\ read_pc' = "raised"
          /\ read_error' = Raise("GitCommandError", "raised by the runner")
          /\ UNCHANGED <<output, pc>>
    /\ UNCHANGED <<runner, require_scope, timeout, probe>>
    /\ UNCHANGED <<fs, records, entries, scopes, effective_map, snapshot, error>>
    /\ UNCHANGED NotRead

\* git_config.py:25, 47-48  result = run_git_command(_CONFIG_LIST_ARGS,
\* timeout=timeout, check=True); output = result.stdout; then line 26 calls
\* parse_git_config_output(output).
RunGitConfig ==
    /\ read_pc = "start"
    /\ runner = "default"
    /\ invocations' = Append(invocations, Invocation("run_git_command", _CONFIG_LIST_ARGS, timeout))
    /\ \E outcome \in ListingOutcomes :
          LET result == run_git_command(outcome, TRUE, timeout)
          IN  IF result.error # NoError
              THEN /\ read_pc' = "raised"
                   /\ read_error' = result.error
                   /\ UNCHANGED <<output, pc>>
              ELSE /\ output' = result.stdout
                   /\ pc' = "call"
                   /\ read_pc' = "parsing"
                   /\ UNCHANGED read_error
    /\ UNCHANGED <<runner, require_scope, timeout, probe>>
    /\ UNCHANGED <<fs, records, entries, scopes, effective_map, snapshot, error>>
    /\ UNCHANGED NotRead

\* git_config.py:26  parse_git_config_output raised: the exception leaves
\* read_config_snapshot.
ParseRaised ==
    /\ read_pc = "parsing"
    /\ pc = "raised"
    /\ read_pc' = "raised"
    /\ read_error' = error
    /\ UNCHANGED <<runner, require_scope, timeout, invocations, probe>>
    /\ UNCHANGED parserVars
    /\ UNCHANGED NotRead

\* EnsureScope probing for the local scope whether or not a runner was given.
EnsureScope_ProbeWithRunner ==
    /\ read_pc = "parsing"
    /\ pc = "returned"
    /\ IF require_scope = "none"
       THEN read_pc' = "returned" /\ UNCHANGED read_error
       ELSE IF require_scope = "local"
       THEN IF ensure_scope_available("local", snapshot.scopes) = NoError
            THEN read_pc' = "returned" /\ UNCHANGED read_error
            ELSE read_pc' = "probing" /\ UNCHANGED read_error
       ELSE IF ensure_scope_available(require_scope, snapshot.scopes) = NoError
            THEN read_pc' = "returned" /\ UNCHANGED read_error
            ELSE /\ read_pc' = "raised"
                 /\ read_error' = ensure_scope_available(require_scope, snapshot.scopes)
    /\ UNCHANGED <<runner, require_scope, timeout, invocations, probe>>
    /\ UNCHANGED parserVars
    /\ UNCHANGED NotRead

\* git_config.py:27-38, 51-56  the scope check after the snapshot was
\* parsed: none required; the local scope with the default runner, which
\* goes on to the probe when the scope is missing; any other case, which
\* raises when the scope is missing.  Otherwise the snapshot is returned.
EnsureScope ==
    /\ read_pc = "parsing"
    /\ pc = "returned"
    /\ IF require_scope = "none"
       THEN read_pc' = "returned" /\ UNCHANGED read_error
       ELSE IF require_scope = "local" /\ runner = "default"
       THEN IF ensure_scope_available("local", snapshot.scopes) = NoError
            THEN read_pc' = "returned" /\ UNCHANGED read_error
            ELSE read_pc' = "probing" /\ UNCHANGED read_error
       ELSE IF ensure_scope_available(require_scope, snapshot.scopes) = NoError
            THEN read_pc' = "returned" /\ UNCHANGED read_error
            ELSE /\ read_pc' = "raised"
                 /\ read_error' = ensure_scope_available(require_scope, snapshot.scopes)
    /\ UNCHANGED <<runner, require_scope, timeout, invocations, probe>>
    /\ UNCHANGED parserVars
    /\ UNCHANGED NotRead

\* git_config.py:58-67  the probe: run_git_command(("rev-parse",
\* "--is-inside-work-tree"), timeout=timeout, check=False); the snapshot is
\* returned when it exits 0 and prints "true", else ScopeNotAvailableError.
ProbeWorkTree ==
    /\ read_pc = "probing"
    /\ invocations' = Append(invocations, Invocation("run_git_command", ProbeArgs, timeout))
    /\ \E outcome \in ProbeOutcomes :
          /\ probe' = run_git_command(outcome, FALSE, timeout)
          /\ IF probe'.error # NoError
             THEN read_pc' = "raised" /\ read_error' = probe'.error
             ELSE IF probe'.returncode = 0 /\ Lower(Strip(probe'.stdout)) = <<"t", "r", "u", "e">>
             THEN read_pc' = "returned" /\ UNCHANGED read_error
             ELSE /\ read_pc' = "raised"
                  /\ read_error' = Raise("ScopeNotAvailableError",
                                         "Local scope unavailable outside a Git repository.")
    /\ UNCHANGED <<runner, require_scope, timeout>>
    /\ UNCHANGED parserVars
    /\ UNCHANGED NotRead

NextRead ==
    \/ InvokeRunner
    \/ RunGitConfig
    \/ ParseRecords
    \/ ReturnEmpty
    \/ BuildEntries
    \/ BuildEffectiveMap
    \/ ReturnSnapshot
    \/ ParseRaised
    \/ EnsureScope
    \/ ProbeWorkTree

SpecRead == InitRead /\ [][NextRead]_vars

(***************************************************************************)
(* cli/commands/view.py: the view command as a state machine               *)
(***************************************************************************)

\* get_category: the id is "uncategorized" or in _CATEGORY_INDEX, else
\* CategoryNotFoundError.
get_category(category_id) ==
    IF category_id = UNCATEGORIZED_CATEGORY_id THEN NoError
    ELSE IF \E i \in 1..Len(_DEFAULT_CATEGORIES) : _DEFAULT_CATEGORIES[i].id = category_id
    THEN NoError
    ELSE Raise("CategoryNotFoundError", "Unknown category id")

\* The exceptions derived from GitCfgError (exceptions.py).
GitCfgErrors ==
    {"ConfigurationError", "ValidationError", "CategoryNotFoundError",
     "ScopeNotAvailableError", "GitCommandError"}

\* bool(text) of an optional str: given and not empty.
Truthy(option) == option # <<>> /\ option[1] # <<>>

\* What console.print is given: a status_panel, the JSON of the snapshot, or
\* the renderable of render_config_snapshot(snapshot, scope=..., category_id=...).
StatusPanel(status, title, message) ==
    [kind |-> "panel", status |-> status, title |-> title, message |-> message,
     scope |-> "none", category_id |-> <<>>, rows |-> <<>>, entries |-> <<>>]

\* formatters.py  snapshot_to_json: the document is known by the entries it
\* serialises.
snapshot_to_json(snap) ==
    [kind |-> "json", status |-> "", title |-> "", message |-> "",
     scope |-> "none", category_id |-> <<>>, rows |-> <<>>, entries |-> snap.entries]

\* --category values: a known id, "uncategorized", an id no category has,
\* a known id in capitals, and the empty text.
CategoryArgs ==
    { <<"c", "o", "r", "e", "-", "b", "e", "h", "a", "v", "i", "o", "r">>, UNCATEGORIZED_CATEGORY_id, <<"n", "o", "p", "e">>,
      <<"C", "O", "R", "E", "-", "B", "E", "H", "A", "V", "I", "O", "R">>, <<>> }

SearchArgs == { <<"x">>, <<>> }

\* required_scope being the scope of --scope, whichever it is.
RequiredScope_AnyScope(scope) == scope

\* view.py:93  required_scope = scope if scope is ConfigScope.LOCAL else None
RequiredScope(scope) == IF scope = "local" THEN "local" ELSE "none"

InitView ==
    /\ opt_scope \in {"none"} \cup Scopes
    /\ opt_category \in {<<>>} \cup {<<c>> : c \in CategoryArgs}
    /\ opt_search \in {<<>>} \cup {<<q>> : q \in SearchArgs}
    /\ opt_format \in {"pretty", "json"}
    /\ view_pc = "start"
    /\ console = <<>>
    /\ exit_code = <<>>
    /\ output = <<>>
    /\ fs \in ReadFilesystems
    /\ pc = "idle"
    /\ records = <<>>
    /\ entries = <<>>
    /\ scopes = <<>>
    /\ effective_map = <<>>
    /\ snapshot = EmptySnapshot
    /\ error = NoError
    /\ LookupIdle
    /\ ReadIdle
    /\ CategoriesIdle
    /\ ConstructorIdle
    /\ BundlesIdle
    /\ TableIdle

\* view.py:65-96  the category lookup, which exits with code 3 for an
\* unknown id; the notices for --category and --search; then the call
\* read_config_snapshot(require_scope=required_scope).
ViewCheckOptions ==
    /\ view_pc = "start"
    /\ LET category_notice ==
               IF Truthy(opt_category)
               THEN <<StatusPanel("warning", "",
                         "Category filtering is not yet available. Showing all categories.")>>
               ELSE <<>>
           search_notice ==
               IF Truthy(opt_search)
               THEN <<StatusPanel("warning", "",
                         "Search filtering is not yet available. Showing all entries.")>>
               ELSE <<>>
       IN  IF Truthy(opt_category) /\ get_category(opt_category[1]) # NoError
           THEN /\ console' = Append(console, StatusPanel("error", "Unknown category",
                                                          "Unknown category id"))
                /\ exit_code' = <<3>>
                /\ view_pc' = "exited"
                /\ UNCHANGED readVars
           ELSE /\ console' = console \o category_notice \o search_notice
                /\ view_pc' = "reading"
                /\ runner' = "default"
                /\ timeout' = <<DefaultTimeout>>
                /\ require_scope' = RequiredScope(opt_scope)
                /\ read_pc' = "start"
                /\ UNCHANGED <<invocations, probe, read_error, exit_code>>
    /\ UNCHANGED <<opt_scope, opt_category, opt_search, opt_format>>
    /\ UNCHANGED parserVars
    /\ UNCHANGED NotView

\* view.py:97-105  read_config_snapshot raised: exit code 4 for
\* ScopeNotAvailableError, 2 for GitCommandError and for any other
\* GitCfgError; any other exception is not caught and ends the process with
\* a traceback and exit status 1.
ViewHandleError ==
    /\ view_pc = "reading"
    /\ read_pc = "raised"
    /\ IF read_error.kind = "ScopeNotAvailableError"
       THEN /\ console' = Append(console, StatusPanel("error", "Scope Unavailable", read_error.msg))
            /\ exit_code' = <<4>>
            /\ view_pc' = "exited"
       ELSE IF read_error.kind = "GitCommandError"
       THEN /\ console' = Append(console, StatusPanel("error", "Git Error", read_error.msg))
            /\ exit_code' = <<2>>
            /\ view_pc' = "exited"
       ELSE IF read_error.kind \in GitCfgErrors
       THEN /\ console' = Append(console, StatusPanel("error", "Error", read_error.msg))
            /\ exit_code' = <<2>>
            /\ view_pc' = "exited"
       ELSE /\ exit_code' = <<1>>
            /\ view_pc' = "crashed"
            /\ UNCHANGED console
    /\ UNCHANGED <<opt_scope, opt_category, opt_search, opt_format>>
    /\ UNCHANGED parserVars
    /\ UNCHANGED readVars
    /\ UNCHANGED NotView

(***************************************************************************)
(* categories.py: group_entries_by_category and build_category_summaries   *)
(***************************************************************************)

\* _entry_sort_key: (entry.key, entry.scope.precedence)
_entry_sort_key(entry) == <<entry.key, precedence(entry.scope)>>

\* Python's < on two (str, int) tuples.
SortKeyLess(a, b) ==
    IF a[1] # b[1] THEN StrLess(a[1], b[1]) ELSE a[2] < b[2]

\* sorted(..., key=_entry_sort_key) and list.sort(key=_entry_sort_key)
SortedBySortKey(s) ==
    StableSort(s, [i, j \in 1..Len(s) |->
                      SortKeyLess(_entry_sort_key(s[i]), _entry_sort_key(s[j]))])

\* category_id in _CATEGORY_INDEX
InCategoryIndex(category_id) ==
    \E i \in 1..Len(_DEFAULT_CATEGORIES) : _DEFAULT_CATEGORIES[i].id = category_id

\* _resolve_entry_category falling back to "uncategorized" instead of the
\* category of the key.
_resolve_entry_category_Uncategorized(entry) ==
    IF entry.category_id = UNCATEGORIZED_CATEGORY_id \/ InCategoryIndex(entry.category_id)
    THEN entry.category_id
    ELSE UNCATEGORIZED_CATEGORY_id

_resolve_entry_category(entry) ==
    IF entry.category_id = UNCATEGORIZED_CATEGORY_id \/ InCategoryIndex(entry.category_id)
    THEN entry.category_id
    ELSE resolve_category_id(entry.key)

\* The first loop of group_entries_by_category: the dict is a sequence of
\* [category_id, bucket] items in insertion order;
\* grouped.setdefault(category_id, []).append(entry) for each entry.
RECURSIVE GroupLoop(_, _)
GroupLoop(dict, todo) ==
    IF todo = <<>> THEN dict
    ELSE LET category_id == _resolve_entry_category(todo[1])
             present     == \E i \in 1..Len(dict) : dict[i].category_id = category_id
             next        == IF present
                            THEN [i \in 1..Len(dict) |->
                                     IF dict[i].category_id = category_id
                                     THEN [dict[i] EXCEPT !.bucket = Append(@, todo[1])]
                                     ELSE dict[i]]
                            ELSE Append(dict, [category_id |-> category_id,
                                               bucket      |-> <<todo[1]>>])
         IN  GroupLoop(next, Tail(todo))

\* group_entries_by_category without the sort of the buckets.
group_entries_by_category_Unsorted(entry_list) == GroupLoop(<<>>, entry_list)

group_entries_by_category(entry_list) ==
    LET dict == GroupLoop(<<>>, entry_list)
    IN  [i \in 1..Len(dict) |-> [dict[i] EXCEPT !.bucket = SortedBySortKey(@)]]

\* grouped.get(category_id, ())
BucketOf(dict, category_id) ==
    IF \E i \in 1..Len(dict) : dict[i].category_id = category_id
    THEN dict[CHOOSE i \in 1..Len(dict) : dict[i].category_id = category_id].bucket
    ELSE <<>>

\* _create_category_summary counting every entry as active.
_create_category_summary_CountAll(category_id, entry_list) ==
    [category     |-> category_id,
     entries      |-> SortedBySortKey(entry_list),
     active_count |-> Len(entry_list)]

\* _create_category_summary; the category is held by its id.
_create_category_summary(category_id, entry_list) ==
    LET entry_tuple == SortedBySortKey(entry_list)
    IN  [category     |-> category_id,
         entries      |-> entry_tuple,
         active_count |-> Cardinality({i \in 1..Len(entry_tuple) : entry_tuple[i].is_active})]

build_category_summaries(entry_list) ==
    LET dict    == group_entries_by_category(entry_list)
        known   == [i \in 1..Len(_DEFAULT_CATEGORIES) |->
                       _create_category_summary(_DEFAULT_CATEGORIES[i].id,
                           BucketOf(dict, _DEFAULT_CATEGORIES[i].id))]
        last    == _create_category_summary(UNCATEGORIZED_CATEGORY_id,
                       BucketOf(dict, UNCATEGORIZED_CATEGORY_id))
        others  == SelectSeq(dict, LAMBDA item :
                       ~InCategoryIndex(item.category_id)
                       /\ item.category_id # UNCATEGORIZED_CATEGORY_id)
        added   == [i \in 1..Len(others) |->
                       _create_category_summary(
                           IF get_category(others[i].category_id) = NoError
                           THEN others[i].category_id
                           ELSE UNCATEGORIZED_CATEGORY_id,
                           others[i].bucket)]
    IN  Append(known, last) \o added

\* The most entries in one argument list.
MaxEntries == 2

\* A category id no category has, and a known one that a key need not
\* resolve to.
LegacyId == <<"l", "e", "g", "a", "c", "y">>
UserIdentityId == <<"u", "s", "e", "r", "-", "i", "d", "e", "n", "t", "i", "t", "y">>
CommitSigningId == <<"c", "o", "m", "m", "i", "t", "-", "s", "i", "g", "n", "i", "n", "g">>

\* ConfigEntry objects as a caller may construct them: any category_id and
\* any is_active, whatever the key.
GivenEntry(key, scope, category_id, is_active) ==
    [key           |-> key,
     value         |-> <<"v">>,
     scope         |-> scope,
     origin        |-> PathH,
     category_id   |-> category_id,
     is_active     |-> is_active,
     overridden_by |-> <<>>,
     annotations   |-> <<>>]

GivenEntries ==
    {GivenEntry(key, scope, category_id, is_active) :
        key \in {CoreEditorKey, UnlistedKey},
        scope \in {"global", "local"},
        category_id \in {resolve_category_id(CoreEditorKey), UNCATEGORIZED_CATEGORY_id,
                         LegacyId, CommitSigningId},
        is_active \in BOOLEAN}

EntryLists == UNION {[1..n -> GivenEntries] : n \in 0..MaxEntries}

InitCategories ==
    /\ cat_entries \in EntryLists
    /\ cat_pc = "call"
    /\ grouped = <<>>
    /\ summaries = <<>>
    /\ ParserIdle
    /\ LookupIdle
    /\ ReadIdle
    /\ ViewIdle
    /\ ConstructorIdle
    /\ BundlesIdle
    /\ TableIdle

\* categories.py:184-195
GroupEntriesByCategory ==
    /\ cat_pc = "call"
    /\ grouped' = group_entries_by_category(cat_entries)
    /\ cat_pc' = "grouped"
    /\ UNCHANGED <<cat_entries, summaries>>
    /\ UNCHANGED NotCategories

\* categories.py:198-221
BuildCategorySummaries ==
    /\ cat_pc = "call"
    /\ summaries' = build_category_summaries(cat_entries)
    /\ cat_pc' = "summarised"
    /\ UNCHANGED <<cat_entries, grouped>>
    /\ UNCHANGED NotCategories

NextCategories ==
    \/ GroupEntriesByCategory
    \/ BuildCategorySummaries

SpecCategories == InitCategories /\ [][NextCategories]_vars

(***************************************************************************)
(* models.py: the ConfigSnapshot constructor called with any arguments     *)
(***************************************************************************)

\* The entries handed to the constructor: two keys at two scopes.
CtorEntries ==
    {GivenEntry(key, scope, resolve_category_id(key), TRUE) :
        key \in {CoreEditorKey, UnlistedKey}, scope \in {"global", "local"}}

CtorEntryLists == UNION {[1..n -> CtorEntries] : n \in 0..MaxEntries}

\* The effective_map arguments: any set of three keys, each with an
\* EffectiveConfig whose active entry is its only entry.
CtorMaps ==
    {[key \in keys |->
         EffectiveConfig(key,
                         GivenEntry(key, "local", resolve_category_id(key), TRUE),
                         <<GivenEntry(key, "local", resolve_category_id(key), TRUE)>>)] :
        keys \in SUBSET {CoreEditorKey, UnlistedKey, UserNameKey}}

InitConstructor ==
    /\ ctor_entries \in CtorEntryLists
    /\ ctor_map \in CtorMaps
    /\ ctor_pc = "call"
    /\ ctor_snapshot = EmptySnapshot
    /\ ctor_error = NoError
    /\ ParserIdle
    /\ LookupIdle
    /\ ReadIdle
    /\ ViewIdle
    /\ CategoriesIdle
    /\ BundlesIdle
    /\ TableIdle

\* models.py:176-199  ConfigSnapshot(scopes={}, entries=..., effective_map=...)
ConstructSnapshot ==
    /\ ctor_pc = "call"
    /\ LET r == ConfigSnapshot(<<>>, ctor_entries, ctor_map)
       IN  /\ ctor_snapshot' = r.snapshot
           /\ ctor_error' = r.error
           /\ ctor_pc' = IF r.error # NoError THEN "raised" ELSE "constructed"
    /\ UNCHANGED <<ctor_entries, ctor_map>>
    /\ UNCHANGED NotConstructor

NextConstructor ==
    \/ ConstructSnapshot

SpecConstructor == InitConstructor /\ [][NextConstructor]_vars

(***************************************************************************)
(* categories.py: build_bundle_summaries                                   *)
(***************************************************************************)

CredentialManagementId == <<"c", "r", "e", "d", "e", "n", "t", "i", "a", "l", "-", "m", "a", "n", "a", "g", "e", "m", "e", "n", "t">>

\* _DEFAULT_BUNDLES; a bundle holds its categories by id.
_DEFAULT_BUNDLES ==
    << [id |-> <<"s", "t", "a", "r", "t", "e", "r", "-", "i", "d", "e", "n", "t", "i", "t", "y">>, categories |-> <<UserIdentityId, CredentialManagementId>>],
       [id |-> <<"s", "e", "c", "u", "r", "e", "-", "c", "o", "l", "l", "a", "b", "o", "r", "a", "t", "i", "o", "n">>, categories |-> <<CommitSigningId>>] >>

\* CategorySummary.has_entries with the active count in place of the entries.
has_entries_ActiveOnly(summary) == summary.active_count > 0

\* CategorySummary.has_entries: bool(self.entries)
has_entries(summary) == summary.entries # <<>>

\* summary_map.get(category.id): <<>> for None, else <<the summary>>.  The
\* argument is a mapping (its keys and its values, item by item) or a
\* sequence of summaries; of a sequence the last summary of a category is
\* the one the dict comprehension keeps.
summary_map_get(category_summaries, category_id) ==
    LET seq  == category_summaries.summaries
        hits == IF category_summaries.mapping
                THEN {i \in 1..Len(seq) : category_summaries.keys[i] = category_id}
                ELSE {i \in 1..Len(seq) : seq[i].category = category_id}
    IN  IF hits = {} THEN <<>>
        ELSE <<seq[CHOOSE i \in hits : \A j \in hits : j <= i]>>

\* bundle_definitions taking the defaults only when bundles is None.
bundle_definitions_NoneOnly(bundles) ==
    IF bundles = <<>> THEN _DEFAULT_BUNDLES ELSE bundles[1]

\* tuple(bundles or get_bundles()): None and an empty sequence are falsy.
bundle_definitions(bundles) ==
    IF bundles = <<>> \/ bundles[1] = <<>> THEN _DEFAULT_BUNDLES ELSE bundles[1]

build_bundle_summaries(category_summaries, bundles) ==
    LET defs == bundle_definitions(bundles)
        for_bundle(bundle) ==
            [c \in 1..Len(bundle.categories) |->
                LET category_summary == summary_map_get(category_summaries, bundle.categories[c])
                IN  IF category_summary = <<>>
                    THEN [category     |-> bundle.categories[c],
                          entries      |-> <<>>,
                          active_count |-> 0]
                    ELSE category_summary[1]]
    IN  [b \in 1..Len(defs) |->
            LET members == for_bundle(defs[b])
            IN  [bundle             |-> defs[b],
                 categories         |-> members,
                 covered_categories |->
                     Cardinality({c \in 1..Len(members) : has_entries(members[c])}),
                 active_categories  |->
                     Cardinality({c \in 1..Len(members) : members[c].active_count > 0})]]

\* The most summaries in one argument sequence.
MaxSummaries == 2

\* Summaries as _create_category_summary makes them, for three categories:
\* without entries, with an active entry, with an inactive entry.
GivenSummaries ==
    {_create_category_summary(id, entry_list) :
        id \in {UserIdentityId, CommitSigningId, resolve_category_id(CoreEditorKey)},
        entry_list \in {<<>>,
                        <<GivenEntry(CoreEditorKey, "local", resolve_category_id(CoreEditorKey), TRUE)>>,
                        <<GivenEntry(CoreEditorKey, "global", resolve_category_id(CoreEditorKey), FALSE)>>}}

\* The category_summaries arguments: a sequence, or a mapping keyed by the
\* id of each summary's category.
SummarySequences ==
    {[mapping |-> FALSE, keys |-> <<>>, summaries |-> seq] :
        seq \in UNION {[1..n -> GivenSummaries] : n \in 0..MaxSummaries}}
SummaryMappings ==
    {[mapping |-> TRUE, keys |-> [i \in 1..Len(seq) |-> seq[i].category], summaries |-> seq] :
        seq \in {q \in UNION {[1..n -> GivenSummaries] : n \in 0..MaxSummaries} :
                    \A i, j \in 1..Len(q) : i < j => q[i].category # q[j].category}}

\* Bundles a caller may pass: two categories, one category, none.
PairBundle == [id |-> <<"b", "1">>, categories |-> <<CommitSigningId, resolve_category_id(CoreEditorKey)>>]
SingleBundle == [id |-> <<"b", "2">>, categories |-> <<UserIdentityId>>]
HollowBundle == [id |-> <<"b", "3">>, categories |-> <<>>]

\* The bundles arguments: None, an empty list, and lists of bundles.
BundleArgs ==
    { <<>>, << <<>> >>, << <<PairBundle>> >>, << <<SingleBundle, PairBundle>> >>,
      << <<HollowBundle>> >> }

InitBundles ==
    /\ given_summaries \in SummarySequences \cup SummaryMappings
    /\ given_bundles \in BundleArgs
    /\ bundle_pc = "call"
    /\ bundle_summaries = <<>>
    /\ ParserIdle
    /\ LookupIdle
    /\ ReadIdle
    /\ ViewIdle
    /\ CategoriesIdle
    /\ ConstructorIdle
    /\ TableIdle

\* categories.py:224-258
BuildBundleSummaries ==
    /\ bundle_pc = "call"
    /\ bundle_summaries' = build_bundle_summaries(given_summaries, given_bundles)
    /\ bundle_pc' = "returned"
    /\ UNCHANGED <<given_summaries, given_bundles>>
    /\ UNCHANGED NotBundles

NextBundles ==
    \/ BuildBundleSummaries

SpecBundles == InitBundles /\ [][NextBundles]_vars

(***************************************************************************)
(* ui/tables.py: build_config_table and render_config_snapshot             *)
(***************************************************************************)

\* category.name of the default categories, in declaration order, and of
\* UNCATEGORIZED_CATEGORY.
_CATEGORY_NAMES ==
    << <<"U", "s", "e", "r", " ", "I", "d", "e", "n", "t", "i", "t", "y">>,
       <<"C", "r", "e", "d", "e", "n", "t", "i", "a", "l", " ", "M", "a", "n", "a", "g", "e", "m", "e", "n", "t">>,
       <<"C", "o", "m", "m", "i", "t", " ", "S", "i", "g", "n", "i", "n", "g">>,
       <<"C", "o", "r", "e", " ", "B", "e", "h", "a", "v", "i", "o", "r">>,
       <<"R", "e", "m", "o", "t", "e", " ", "S", "e", "t", "t", "i", "n", "g", "s">>,
       <<"C", "u", "s", "t", "o", "m", " ", "C", "a", "p", "a", "b", "i", "l", "i", "t", "i", "e", "s">> >>
UNCATEGORIZED_CATEGORY_name == <<"U", "n", "c", "a", "t", "e", "g", "o", "r", "i", "z", "e", "d">>

\* summary.category.name for a summary that holds its category by id.
CategoryName(category_id) ==
    IF category_id = UNCATEGORIZED_CATEGORY_id THEN UNCATEGORIZED_CATEGORY_name
    ELSE _CATEGORY_NAMES[CHOOSE i \in 1..Len(_DEFAULT_CATEGORIES) :
                            _DEFAULT_CATEGORIES[i].id = category_id]

\* _filter_entries
_filter_entries(entry_list, scope) ==
    IF scope = "none" THEN entry_list
    ELSE SelectSeq(entry_list, LAMBDA entry : entry.scope = scope)

\* The key cell comparing keys only, whatever the category.
KeyCell_KeysOnly(key, name, last_key, last_category_name) ==
    IF <<key>> # last_key THEN key ELSE <<>>

\* tables.py:72-75  key_cell: last_key is forgotten when the category
\* changes; last_key and last_category_name are <<>> for None.
KeyCell(key, name, last_key, last_category_name) ==
    LET known_key == IF <<name>> # last_category_name THEN <<>> ELSE last_key
    IN  IF <<key>> # known_key \/ <<name>> # last_category_name THEN key ELSE <<>>

\* tables.py:70-89  one pass of the loop over filtered_entries: the row
\* added for the entry.  A row holds its category and key cells and the
\* entry its other cells are formatted from.
AddRow(table, name, entry) ==
    [table EXCEPT
        !.rows = Append(@, [category_cell |-> IF <<name>> # table.last_category_name
                                              THEN name ELSE <<>>,
                            key_cell      |-> KeyCell(entry.key, name, table.last_key,
                                                      table.last_category_name),
                            entry         |-> entry,
                            end_section   |-> FALSE]),
        !.last_category_name = <<name>>,
        !.last_key = <<entry.key>>]

\* tables.py:69-89  the loop over filtered_entries.
RECURSIVE AddRows(_, _, _)
AddRows(table, name, todo) ==
    IF todo = <<>> THEN table
    ELSE AddRows(AddRow(table, name, todo[1]), name, Tail(todo))

\* tables.py:91-92  the position of the last row is noted when the category
\* added rows (positions are counted from 1).
NoteLastRow(table, starting_row_count) ==
    IF Len(table.rows) > starting_row_count
    THEN [table EXCEPT !.category_row_indices = Append(@, Len(table.rows))]
    ELSE table

\* tables.py:65-92  a summary that has entries left by the scope filter.
AddSummaryRows(table, name, filtered_entries) ==
    IF filtered_entries = <<>> THEN table
    ELSE NoteLastRow(AddRows(table, name, filtered_entries), Len(table.rows))

\* tables.py:61-92  the loop over the summaries.
RECURSIVE SummaryLoop(_, _, _, _)
SummaryLoop(table, todo, scope, category_id) ==
    IF todo = <<>> THEN table
    ELSE IF Truthy(category_id) /\ todo[1].category # category_id[1]
    THEN SummaryLoop(table, Tail(todo), scope, category_id)
    ELSE SummaryLoop(AddSummaryRows(table, CategoryName(todo[1].category),
                                    _filter_entries(todo[1].entries, scope)),
                     Tail(todo), scope, category_id)

\* The rows marked when every index of category_row_indices is used.
SectionEnds_All(category_row_indices) ==
    {category_row_indices[i] : i \in 1..Len(category_row_indices)}

\* tables.py:94  category_row_indices[:-1]
SectionEnds(category_row_indices) ==
    {category_row_indices[i] : i \in 1..(Len(category_row_indices) - 1)}

\* tables.py:94-97  end_section is set on the rows of SectionEnds; the rows
\* of the table are returned.
MarkSectionEnds(table) ==
    [i \in 1..Len(table.rows) |->
        [table.rows[i] EXCEPT !.end_section = i \in SectionEnds(table.category_row_indices)]]

\* build_config_table: the rows of the table.
build_config_table(snap, scope, category_id) ==
    MarkSectionEnds(
        SummaryLoop([rows |-> <<>>, last_category_name |-> <<>>, last_key |-> <<>>,
                     category_row_indices |-> <<>>],
                    build_category_summaries(snap.entries), scope, category_id))

\* The most entries in the snapshot of a table.
MaxRows == 3

\* The entries of the snapshots shown: two keys of core-behavior and one of
\* user-identity at two scopes, and core.editor filed as uncategorized at a
\* third scope and at one of the two.
TableEntries ==
    {GivenEntry(key, scope, resolve_category_id(key), TRUE) :
        key \in {CoreEditorKey, DefaultBranchKey, UserNameKey}, scope \in {"global", "local"}}
    \cup {GivenEntry(CoreEditorKey, scope, UNCATEGORIZED_CATEGORY_id, TRUE) :
              scope \in {"system", "local"}}

\* An effective_map for the entries: per key its first entry as the active
\* one.
EffectiveMapFor(entry_list) ==
    [key \in {entry_list[i].key : i \in 1..Len(entry_list)} |->
        EffectiveConfig(key,
                        SelectSeq(entry_list, LAMBDA e : e.key = key)[1],
                        SelectSeq(entry_list, LAMBDA e : e.key = key))]

\* The snapshots the constructor accepts for lists of up to MaxRows entries.
TableSnapshots ==
    {ConfigSnapshot(<<>>, entry_list, EffectiveMapFor(entry_list)).snapshot :
        entry_list \in {l \in UNION {[1..n -> TableEntries] : n \in 0..MaxRows} :
                           _validate_snapshot(l, EffectiveMapFor(l))}}

\* The category_id arguments: None, the empty text, two ids with entries, an
\* id without entries.
TableCategoryArgs ==
    { <<>>, << <<>> >>, <<resolve_category_id(CoreEditorKey)>>, <<UNCATEGORIZED_CATEGORY_id>>,
      <<CommitSigningId>> }

InitTable ==
    /\ table_snapshot \in TableSnapshots
    /\ table_scope \in {"none"} \cup Scopes
    /\ table_category_id \in TableCategoryArgs
    /\ table_pc = "call"
    /\ table_rows = <<>>
    /\ ParserIdle
    /\ LookupIdle
    /\ ReadIdle
    /\ ViewIdle
    /\ CategoriesIdle
    /\ ConstructorIdle
    /\ BundlesIdle

\* tables.py:39-97
BuildConfigTable ==
    /\ table_pc = "call"
    /\ table_rows' = build_config_table(table_snapshot, table_scope, table_category_id)
    /\ table_pc' = "returned"
    /\ UNCHANGED <<table_snapshot, table_scope, table_category_id>>
    /\ UNCHANGED NotTable

NextTable ==
    \/ BuildConfigTable

SpecTable == InitTable /\ [][NextTable]_vars

(***************************************************************************)
(* view.py: rendering the snapshot read                                    *)
(***************************************************************************)

\* tables.py:27-36  the 'Empty Result' panel for a table without rows, its
\* message's "(scope: ...)" and "(category: ...)" parts held in the scope
\* and category_id fields; otherwise the group of the scope overview, which
\* highlights the scope, and the table.
RenderTable(table, scope, category_id) ==
    IF Len(table) = 0
    THEN [kind |-> "panel", status |-> "info", title |-> "Empty Result",
          message |-> "No configuration entries available for the selected options.",
          scope |-> scope,
          category_id |-> IF Truthy(category_id) THEN category_id ELSE <<>>,
          rows |-> <<>>, entries |-> <<>>]
    ELSE [kind |-> "renderable", status |-> "", title |-> "", message |-> "",
          scope |-> scope, category_id |-> <<>>, rows |-> table, entries |-> <<>>]

\* render_config_snapshot
render_config_snapshot(snap, scope, category_id) ==
    RenderTable(build_config_table(snap, scope, category_id), scope, category_id)

\* The renderer given the category id of --category.
RendererCategoryId_Applied(category_id) == category_id

\* view.py:121  category_id if apply_category_filter else None
RendererCategoryId(category_id) == <<>>

\* view.py:107-123  the snapshot was read: with --format json a notice when
\* a filter option was given, then the JSON of the whole snapshot; otherwise
\* what render_config_snapshot returns for the snapshot, the scope and
\* category_id None (apply_category_filter is False).  category_id is
\* get_category(category).id, the id given.  The command returns: exit code 0.
ViewRender ==
    /\ view_pc = "reading"
    /\ read_pc = "returned"
    /\ LET category_id == IF Truthy(opt_category) THEN opt_category ELSE <<>>
       IN
       IF opt_format = "json"
       THEN console' = console
                \o (IF opt_scope # "none" \/ Truthy(opt_category) \/ Truthy(opt_search)
                    THEN <<StatusPanel("warning", "",
                              "JSON output currently ignores filters. Returning the full snapshot.")>>
                    ELSE <<>>)
                \o <<snapshot_to_json(snapshot)>>
       ELSE console' = Append(console,
                render_config_snapshot(snapshot, opt_scope, RendererCategoryId(category_id)))
    /\ exit_code' = <<0>>
    /\ view_pc' = "exited"
    /\ UNCHANGED <<opt_scope, opt_category, opt_search, opt_format>>
    /\ UNCHANGED parserVars
    /\ UNCHANGED readVars
    /\ UNCHANGED NotView

NextView ==
    \/ ViewCheckOptions
    \/ RunGitConfig
    \/ ParseRecords
    \/ ReturnEmpty
    \/ BuildEntries
    \/ BuildEffectiveMap
    \/ ReturnSnapshot
    \/ ParseRaised
    \/ EnsureScope
    \/ ProbeWorkTree
    \/ ViewHandleError
    \/ ViewRender

SpecView == InitView /\ [][NextView]_vars

(***************************************************************************)
(* Properties of parse_git_config_output                                   *)
(***************************************************************************)

\* The precedence order the data model states: system < global < local.
PrecedenceOrder == <<"system", "global", "local">>
RankOf(scope) == CHOOSE i \in 1..Len(PrecedenceOrder) : PrecedenceOrder[i] = scope

Accepted == pc = "returned"

\* _parse_records returned normally (a later step may still raise).
ParsedOk == pc \in {"parsed", "built", "mapped", "returned"}
            \/ (pc = "raised" /\ error.kind = "pydantic.ValidationError")

SnapshotKeys == {snapshot.entries[i].key : i \in 1..Len(snapshot.entries)}
EntriesOfKey(k) == {i \in 1..Len(snapshot.entries) : snapshot.entries[i].key = k}
RecordsOfPair(k, sc) == {r \in 1..Len(records) : records[r].key = k /\ records[r].scope = sc}
InputScopesOfKey(k) == {records[r].scope : r \in {q \in 1..Len(records) : records[q].key = k}}

KeyAB == <<"a", ".", "b">>

\* C1: in an accepted input's snapshot, every key has exactly one entry with
\* is_active = true, and that entry's scope is the highest-precedence scope
\* at which the key occurs in the input.
C1_OneActivePerKeyAtHighestScope ==
    Accepted =>
        \A k \in SnapshotKeys :
            LET active == {i \in EntriesOfKey(k) : snapshot.entries[i].is_active}
            IN  /\ Cardinality(active) = 1
                /\ \A i \in active :
                      /\ snapshot.entries[i].scope \in InputScopesOfKey(k)
                      /\ \A sc \in InputScopesOfKey(k) :
                            RankOf(sc) <= RankOf(snapshot.entries[i].scope)

\* A snapshot in which a.b is defined at all three scopes.
C1_Witness ==
    /\ Accepted
    /\ InputScopesOfKey(KeyAB) = {"system", "global", "local"}
    /\ \E i \in EntriesOfKey(KeyAB) :
          snapshot.entries[i].is_active /\ snapshot.entries[i].scope = "local"

\* C2: every entry's overridden_by is exactly the scopes of the same key's
\* entries with strictly higher precedence, highest first; so with a key at
\* system, global and local the lists are [local, global], [local] and [],
\* and with a key at system and global only they are [global] and [].
C2_OverriddenByHigherScopesDescending ==
    Accepted =>
        \A i \in 1..Len(snapshot.entries) :
            LET e      == snapshot.entries[i]
                higher == {snapshot.entries[j].scope : j \in
                              {q \in EntriesOfKey(e.key) :
                                  RankOf(snapshot.entries[q].scope) > RankOf(e.scope)}}
                ob     == e.overridden_by
                present == {snapshot.entries[j].scope : j \in EntriesOfKey(e.key)}
            IN  /\ {ob[n] : n \in 1..Len(ob)} = higher
                /\ Len(ob) = Cardinality(higher)
                /\ \A m, n \in 1..Len(ob) : m < n => RankOf(ob[m]) > RankOf(ob[n])
                /\ (present = {"system", "global", "local"} =>
                       ob = CASE e.scope = "system" -> <<"local", "global">>
                              [] e.scope = "global" -> <<"local">>
                              [] e.scope = "local"  -> <<>>)
                /\ (present = {"system", "global"} =>
                       ob = IF e.scope = "system" THEN <<"global">> ELSE <<>>)

\* The system entry of a key defined at all three scopes.
C2_Witness ==
    /\ Accepted
    /\ \E i \in 1..Len(snapshot.entries) :
          /\ snapshot.entries[i].scope = "system"
          /\ snapshot.entries[i].overridden_by = <<"local", "global">>

KeySlash == <<"b", "r", "a", "n", "c", "h", ".", "f", "/", "b", ".", "m">>

\* C3: an input with a key containing "/" in its subsection (here the line
\* "local file:/l branch.f/b.m=r/h", alone or with other well-formed lines)
\* is accepted: no error is raised, the key is in effective_map and its
\* active entry carries the value unchanged.
C3_SlashKeyAccepted ==
    LET lines == SplitLines(output)
    IN  ( /\ \E i \in 1..Len(lines) : lines[i] = SlashKeyLine
          /\ \A i \in 1..Len(lines) :
                lines[i] \in {SlashKeyLine, SysLine, GlobalLine, LocalLine, DupGlobalLine}
          /\ pc \in {"returned", "raised"} )
        => /\ pc = "returned"
           /\ KeySlash \in DOMAIN snapshot.effective_map
           /\ snapshot.effective_map[KeySlash].active_entry.value = <<"r", "/", "h">>

DigitOf == <<"1", "2", "3", "4", "5", "6", "7", "8", "9">>

\* C4: records sharing a (key, scope) pair give exactly one entry, with the
\* value of the last such record and the one annotation "N values defined at
\* <scope> scope; using the most recent definition."; a pair that occurs
\* once gives an entry without annotation.
C4_DuplicatesCollapseToLastAnnotated ==
    Accepted =>
        \A r \in 1..Len(records) :
            LET k    == records[r].key
                sc   == records[r].scope
                same == RecordsOfPair(k, sc)
                last == CHOOSE q \in same : \A q2 \in same : q2 <= q
                N    == Cardinality(same)
                es   == {i \in EntriesOfKey(k) : snapshot.entries[i].scope = sc}
            IN  /\ Cardinality(es) = 1
                /\ \A i \in es :
                      /\ snapshot.entries[i].value = records[last].value
                      /\ snapshot.entries[i].annotations =
                            IF N > 1
                            THEN << << <<DigitOf[N]>>, " values defined at ", ScopeValue[sc],
                                       " scope; using the most recent definition." >> >>
                            ELSE <<>>

\* a.b given twice at global scope with different values, the second last.
C4_Witness ==
    /\ Accepted
    /\ Cardinality(RecordsOfPair(KeyAB, "global")) = 2
    /\ \E i \in EntriesOfKey(KeyAB) :
          /\ snapshot.entries[i].scope = "global"
          /\ snapshot.entries[i].value = <<"x", "=", "/", "y">>
          /\ Len(snapshot.entries[i].annotations) = 1
          /\ snapshot.entries[i].annotations[1][1] = <<"2">>

\* C5: in an accepted input's snapshot the keys of entries are exactly the
\* keys of effective_map.
C5_EntryKeysEqualEffectiveMapKeys ==
    Accepted => SnapshotKeys = DOMAIN snapshot.effective_map

\* A snapshot with two keys.
C5_Witness ==
    /\ Accepted
    /\ Cardinality(SnapshotKeys) = 2
    /\ Cardinality(DOMAIN snapshot.effective_map) = 2

\* C6: an accepted input's snapshot has no two entries with the same
\* (key, scope) pair, and as many entries as there are distinct (key, scope)
\* pairs among the parsed records.
C6_OneEntryPerKeyScopePair ==
    Accepted =>
        /\ \A i, j \in 1..Len(snapshot.entries) :
              (/\ snapshot.entries[i].key = snapshot.entries[j].key
               /\ snapshot.entries[i].scope = snapshot.entries[j].scope) => i = j
        /\ Len(snapshot.entries) =
              Cardinality({<<records[r].key, records[r].scope>> : r \in 1..Len(records)})

\* Three records, two of them for the same pair, and another scope of the
\* same key.
C6_Witness ==
    /\ Accepted
    /\ Len(records) = 3
    /\ Len(snapshot.entries) = 2
    /\ Cardinality(SnapshotKeys) = 1

\* C7: effective_map[key].all_entries holds exactly the snapshot's entries
\* of that key, in strictly ascending scope precedence, and active_entry is
\* one of them; for a key at all three scopes the scopes are
\* [system, global, local] and only the local entry is active.
C7_AllEntriesAscendingWithActiveMember ==
    Accepted =>
        \A k \in DOMAIN snapshot.effective_map :
            LET ec == snapshot.effective_map[k]
                ae == ec.all_entries
            IN  /\ {ae[i] : i \in 1..Len(ae)} = {snapshot.entries[i] : i \in EntriesOfKey(k)}
                /\ Len(ae) = Cardinality(EntriesOfKey(k))
                /\ \A i, j \in 1..Len(ae) : i < j => RankOf(ae[i].scope) < RankOf(ae[j].scope)
                /\ \E i \in 1..Len(ae) : ae[i] = ec.active_entry
                /\ (Len(ae) = 3 =>
                       /\ [i \in 1..3 |-> ae[i].scope] = <<"system", "global", "local">>
                       /\ [i \in 1..3 |-> ae[i].is_active] = <<FALSE, FALSE, TRUE>>)

\* The effective view of a key defined at all three scopes.
C7_Witness ==
    /\ Accepted
    /\ KeyAB \in DOMAIN snapshot.effective_map
    /\ Len(snapshot.effective_map[KeyAB].all_entries) = 3
    /\ snapshot.effective_map[KeyAB].active_entry.scope = "local"

\* All whitespace-separated tokens of a line.
TokensOf(line) == SplitWs(line, Len(line))

IsBlank(line) == Strip(line) = <<>>

\* How a non-blank line is malformed, the token count first, then the scope
\* token, then the key: "short", "scope", "key"; "origin" for a well-scoped
\* line whose origin is a bare "file:"; else "none".
DefectOf(line) ==
    LET tokens == TokensOf(line)
    IN  IF Len(tokens) < 3 THEN "short"
        ELSE IF Lower(tokens[1]) \notin {ScopeValue[sc] : sc \in Scopes} THEN "scope"
        ELSE IF SplitWs(Strip(line), 2)[3][1] = "=" THEN "key"
        ELSE IF tokens[2] = FilePrefix THEN "origin"
        ELSE "none"

\* Per line of the text its defect, "none" for a blank line.
DefectsOf(text) ==
    LET lines == SplitLines(text)
    IN  [i \in 1..Len(lines) |-> IF IsBlank(lines[i]) THEN "none" ELSE DefectOf(lines[i])]

\* C8: a malformed line makes the call raise and return no snapshot; the
\* first such line decides the error: fewer than three tokens gives
\* ConfigurationError, an unknown scope token ValidationError, an empty key
\* ConfigurationError.
C8_MalformedLinesRejected ==
    pc # "call" =>
        LET defects == DefectsOf(output)
            bad     == {i \in 1..Len(defects) : defects[i] # "none"}
            first   == defects[CHOOSE i \in bad : \A j \in bad : i <= j]
        IN  bad # {} =>
                /\ pc = "raised"
                /\ snapshot = EmptySnapshot
                /\ (first = "short" => error.kind = "ConfigurationError")
                /\ (first = "scope" => error.kind = "ValidationError")
                /\ (first = "key" => error.kind = "ConfigurationError")

\* A well-formed line followed by a line with an empty key.
C8_Witness ==
    /\ pc = "raised"
    /\ Len(SplitLines(output)) = 2
    /\ SplitLines(output)[1] = GlobalLine
    /\ DefectOf(SplitLines(output)[2]) = "key"
    /\ error.kind = "ConfigurationError"

\* The text without its blank lines.
WithoutBlankLines(text) == JoinLines(SelectSeq(SplitLines(text), LAMBDA l : ~IsBlank(l)))

\* C9: the empty text, or a text of blank lines only, gives a snapshot with
\* empty scopes, entries and effective_map and no error; blank lines among
\* other lines are skipped: the outcome is that of the text without them.
C9_BlankLinesSkipped ==
    pc \in {"returned", "raised"} =>
        /\ (\A i \in 1..Len(SplitLines(output)) : IsBlank(SplitLines(output)[i]))
              => (pc = "returned" /\ error = NoError /\ snapshot = EmptySnapshot)
        /\ LET want == parse_git_config_output(WithoutBlankLines(output), fs)
           IN  /\ (pc = "returned") = (want.error = NoError)
               /\ error = want.error
               /\ snapshot = want.snapshot

\* A text of two blank lines.
C9_Witness ==
    /\ pc = "returned"
    /\ Len(SplitLines(output)) = 2
    /\ \A i \in 1..2 : IsBlank(SplitLines(output)[i])
    /\ snapshot = EmptySnapshot

\* The third part of each non-blank line: its key=value payload.
PayloadOf(line) == SplitWs(Strip(line), 2)[3]

\* C10: a payload is split on its first "=" only: the key is the text before
\* it, trimmed, the value all the text after it, unchanged; a payload
\* without "=" gives the whole payload as key and the empty value.
C10_PayloadSplitOnFirstEquals ==
    ParsedOk =>
        LET lines == SelectSeq(SplitLines(output), LAMBDA l : ~IsBlank(l))
        IN  /\ Len(records) = Len(lines)
            /\ \A i \in 1..Len(lines) :
                  LET p   == PayloadOf(lines[i])
                      eqs == {j \in 1..Len(p) : p[j] = "="}
                      f   == CHOOSE j \in eqs : \A j2 \in eqs : j <= j2
                  IN  IF eqs = {}
                      THEN records[i].key = p /\ records[i].value = <<>>
                      ELSE /\ records[i].key = Strip(SubSeq(p, 1, f - 1))
                           /\ records[i].value = SubSeq(p, f + 1, Len(p))

\* A value that contains a further "=", and a payload without "=".
C10_Witness ==
    /\ ParsedOk
    /\ \E i \in 1..Len(records) : records[i].value = <<"x", "=", "/", "y">>
    /\ \E i \in 1..Len(records) :
          records[i].key = <<"c", "o", "r", "e", ".", "x">> /\ records[i].value = <<>>

(***************************************************************************)
(* Properties of resolve_category_id                                       *)
(***************************************************************************)

KnownCategoryIds == {_DEFAULT_CATEGORIES[i].id : i \in 1..Len(_DEFAULT_CATEGORIES)}

RemoteSettingsId == <<"r", "e", "m", "o", "t", "e", "-", "s", "e", "t", "t", "i", "n", "g", "s">>

\* C11: resolve_category_id always returns, and returns a known category id
\* or "uncategorized": for an empty or whitespace-only key "uncategorized";
\* for a key in the exact-match table a category that lists it, whatever the
\* glob patterns; otherwise the category of the first glob pattern, in
\* declaration order, that matches with case respected (remote.origin.url
\* and branch.main.merge give remote-settings, Core.editor matches nothing);
\* otherwise "uncategorized".
C11_ResolveLookupOrder ==
    lookup_pc = "returned" =>
        LET key   == Strip(lookup_key)
            cats  == _DEFAULT_CATEGORIES
            exact == {i \in 1..Len(cats) :
                         \E j \in 1..Len(cats[i].keys) :
                             cats[i].keys[j] = key /\ ~IsWildcard(cats[i].keys[j])}
            globs == {p \in (1..Len(cats)) \X (1..3) :
                         /\ p[2] <= Len(cats[p[1]].keys)
                         /\ IsWildcard(cats[p[1]].keys[p[2]])
                         /\ fnmatchcase(key, cats[p[1]].keys[p[2]])}
            first == CHOOSE p \in globs :
                         \A q \in globs : p[1] < q[1] \/ (p[1] = q[1] /\ p[2] <= q[2])
        IN  /\ lookup_result \in KnownCategoryIds \cup {UNCATEGORIZED_CATEGORY_id}
            /\ IF \A i \in 1..Len(lookup_key) : lookup_key[i] \in WhitespaceChars
               THEN lookup_result = UNCATEGORIZED_CATEGORY_id
               ELSE IF exact # {} THEN \E i \in exact : lookup_result = cats[i].id
               ELSE IF globs # {} THEN lookup_result = cats[first[1]].id
               ELSE lookup_result = UNCATEGORIZED_CATEGORY_id
            /\ (key \in {RemoteUrlKey, BranchMergeKey} => lookup_result = RemoteSettingsId)
            /\ (key = CapitalCoreKey => lookup_result = UNCATEGORIZED_CATEGORY_id)

\* branch.main.merge between whitespace, resolved through the second glob
\* pattern of remote-settings.
C11_Witness ==
    /\ lookup_pc = "returned"
    /\ lookup_key = <<" ">> \o BranchMergeKey \o <<"\n">>
    /\ lookup_result = RemoteSettingsId

(***************************************************************************)
(* Further properties of parse_git_config_output                           *)
(***************************************************************************)

\* The triple (category_id, key, scope precedence) of a is strictly smaller
\* than that of b: at the first component in which they differ.
TripleLess(a, b) ==
    \/ StrLess(a.category_id, b.category_id)
    \/ a.category_id = b.category_id /\ StrLess(a.key, b.key)
    \/ a.category_id = b.category_id /\ a.key = b.key /\ RankOf(a.scope) < RankOf(b.scope)

\* C12: in an accepted input's snapshot, entries is sorted strictly
\* ascending by (category_id, key, scope precedence): each entry's triple is
\* smaller than that of the entry after it.
C12_EntriesSortedByCategoryKeyScope ==
    Accepted =>
        \A i \in 1..(Len(snapshot.entries) - 1) :
            TripleLess(snapshot.entries[i], snapshot.entries[i + 1])

\* core.x (core-behavior) ahead of a.b (uncategorized) at global and local
\* scope, although "a.b" < "core.x".
C12_Witness ==
    /\ Accepted
    /\ Len(snapshot.entries) = 3
    /\ snapshot.entries[1].key = <<"c", "o", "r", "e", ".", "x">>
    /\ snapshot.entries[2].key = KeyAB /\ snapshot.entries[2].scope = "global"
    /\ snapshot.entries[3].key = KeyAB /\ snapshot.entries[3].scope = "local"

\* The file-backed records of a scope whose origin exists, by position.
ExistingFileRecords(sc) ==
    {r \in 1..Len(records) :
        records[r].scope = sc /\ records[r].file_origin /\ records[r].origin \in fs.exists}

\* C13: snapshot.scopes has a scope iff some file-backed record of that
\* scope has an origin path that exists; its path is that of the first such
\* record in input order, records collapsed as duplicates included, and
\* is_writable is that path's writability; a scope without one is absent
\* and the input is accepted all the same.
C13_ScopeMetadataFromFirstExistingFile ==
    /\ pc # "raised"
    /\ Accepted =>
          \A sc \in Scopes :
              LET cands == ExistingFileRecords(sc)
                  first == CHOOSE r \in cands : \A q \in cands : r <= q
              IN  /\ (sc \in DOMAIN snapshot.scopes) <=> (cands # {})
                  /\ cands # {} =>
                        /\ snapshot.scopes[sc].scope = sc
                        /\ snapshot.scopes[sc].path = records[first].origin
                        /\ snapshot.scopes[sc].is_writable = (records[first].origin \in fs.writable)

\* a.b given at global scope by /g and then by /h, both present, only /h
\* writable: the entry kept is that of /h, the metadata that of /g; the
\* system scope, whose only record is not file-backed, is absent.
C13_Witness ==
    /\ Accepted
    /\ Len(records) = 3
    /\ records[1].origin = PathG /\ records[2].origin = PathH /\ ~records[3].file_origin
    /\ \E i \in 1..Len(snapshot.entries) :
          snapshot.entries[i].scope = "global" /\ snapshot.entries[i].origin = PathH
    /\ DOMAIN snapshot.scopes = {"global"}
    /\ snapshot.scopes["global"].path = PathG
    /\ ~snapshot.scopes["global"].is_writable
    /\ PathH \in fs.writable

(***************************************************************************)
(* Properties of read_config_snapshot                                      *)
(***************************************************************************)

ListingArgs == <<"config", "--list", "--show-scope", "--show-origin">>
WorkTreeProbeArgs == <<"rev-parse", "--is-inside-work-tree">>

ListingCalls == {i \in 1..Len(invocations) : invocations[i].args = ListingArgs}
ProbeCalls == {i \in 1..Len(invocations) : invocations[i].args = WorkTreeProbeArgs}

ReadFinished == read_pc \in {"returned", "raised"}

\* The listing was parsed into a snapshot that lacks the required scope.
RequiredScopeMissing ==
    /\ pc = "returned"
    /\ require_scope # "none"
    /\ require_scope \notin DOMAIN snapshot.scopes

\* C15: the runner is invoked for the listing exactly once, first, with the
\* arguments config --list --show-scope --show-origin and the caller's
\* timeout, and never again; when that invocation fails or times out the
\* error leaves read_config_snapshot with nothing parsed and no further
\* invocation; the rev-parse --is-inside-work-tree probe is invoked at most
\* once, as the second invocation, and only when the listing was parsed into
\* a snapshot, the local scope is required, no runner was injected and the
\* local scope is absent from the snapshot's scope metadata.
C15_OneListingNoRetryGuardedProbe ==
    /\ read_pc = "start" => invocations = <<>>
    /\ read_pc # "start" =>
          /\ ListingCalls = {1}
          /\ invocations[1].timeout = timeout
          /\ invocations[1].by = (IF runner = "injected" THEN "runner" ELSE "run_git_command")
    /\ ListingCalls \cup ProbeCalls = 1..Len(invocations)
    /\ (read_pc # "start" /\ pc = "idle") =>
          /\ read_pc = "raised"
          /\ read_error.kind \in {"GitCommandError", "ValidationError"}
          /\ records = <<>> /\ snapshot = EmptySnapshot
          /\ Len(invocations) = 1
    /\ (ReadFinished /\ pc = "raised") => (read_error = error /\ Len(invocations) = 1)
    /\ ProbeCalls # {} =>
          /\ ProbeCalls = {2}
          /\ pc = "returned"
          /\ require_scope = "local"
          /\ runner = "default"
          /\ "local" \notin DOMAIN snapshot.scopes

\* The probe ran after a listing without local lines and answered "true".
C15_Witness ==
    /\ read_pc = "returned"
    /\ Len(invocations) = 2
    /\ invocations[1].args = ListingArgs
    /\ invocations[2].args = WorkTreeProbeArgs
    /\ Len(snapshot.entries) > 0

ProbeSaysTrue ==
    /\ probe.error = NoError
    /\ probe.returncode = 0
    /\ Lower(Strip(probe.stdout)) = <<"t", "r", "u", "e">>

\* C16 as stated: whenever the required scope is not a key of the built
\* snapshot's scopes the call raises ScopeNotAvailableError, and a snapshot
\* is returned only when the required scope is a key of snapshot.scopes or
\* no scope was required.
C16_MissingScopeAlwaysRaises ==
    /\ (ReadFinished /\ RequiredScopeMissing) =>
          (read_pc = "raised" /\ read_error.kind = "ScopeNotAvailableError")
    /\ read_pc = "returned" =>
          (require_scope = "none" \/ require_scope \in DOMAIN snapshot.scopes)

\* C16 amended: when the required scope is not a key of the built
\* snapshot's scopes the call raises ScopeNotAvailableError, except for the
\* local scope without an injected runner, where the work-tree probe
\* decides: the snapshot is returned when the probe exits 0 and prints
\* "true", the probe's GitCommandError is raised when it times out or git
\* cannot be started, and ScopeNotAvailableError otherwise; a snapshot is
\* returned only when the required scope is a key of snapshot.scopes, no
\* scope was required, or that probe said "true".
C16_MissingScopeRaisesUnlessProbeTrue ==
    /\ (ReadFinished /\ RequiredScopeMissing) =>
          IF require_scope = "local" /\ runner = "default"
          THEN /\ Len(invocations) = 2
               /\ IF probe.error # NoError
                  THEN /\ read_pc = "raised"
                       /\ read_error = probe.error
                       /\ read_error.kind = "GitCommandError"
                  ELSE IF ProbeSaysTrue THEN read_pc = "returned"
                  ELSE read_pc = "raised" /\ read_error.kind = "ScopeNotAvailableError"
          ELSE /\ read_pc = "raised"
               /\ read_error.kind = "ScopeNotAvailableError"
               /\ Len(invocations) = 1
    /\ read_pc = "returned" =>
          \/ require_scope = "none"
          \/ require_scope \in DOMAIN snapshot.scopes
          \/ require_scope = "local" /\ runner = "default" /\ ProbeSaysTrue

\* The local scope required without a runner, a listing that has global
\* lines only, and a probe that prints "true": the snapshot is returned.
C16_Witness ==
    /\ read_pc = "returned"
    /\ RequiredScopeMissing
    /\ require_scope = "local"
    /\ ProbeSaysTrue
    /\ \E i \in 1..Len(snapshot.entries) : snapshot.entries[i].scope = "global"

(***************************************************************************)
(* Properties of the view command                                          *)
(***************************************************************************)

\* The run of view has ended, by an exit or by an exception nothing caught.
ViewEnded == view_pc \in {"exited", "crashed"}

\* A --category id was given that no category has.
UnknownCategoryGiven ==
    Truthy(opt_category) /\ get_category(opt_category[1]) # NoError

\* C17: a run of view ends with exit code 0 exactly when the snapshot was
\* read and shown, and otherwise with one of three codes: 3 for an unknown
\* --category id, found before the external tool is invoked; 4 when
\* read_config_snapshot raised ScopeNotAvailableError; 2 when it raised
\* GitCommandError or any other gitcfg error.
C17_ViewExitCodes ==
    ViewEnded =>
        /\ exit_code \in {<<0>>, <<2>>, <<3>>, <<4>>}
        /\ exit_code = <<0>> <=> (~UnknownCategoryGiven /\ read_pc = "returned")
        /\ exit_code = <<3>> <=> UnknownCategoryGiven
        /\ UnknownCategoryGiven => invocations = <<>>
        /\ exit_code = <<4>> <=>
               (read_pc = "raised" /\ read_error.kind = "ScopeNotAvailableError")
        /\ exit_code = <<2>> <=>
               (/\ read_pc = "raised"
                /\ read_error.kind \in GitCfgErrors \ {"ScopeNotAvailableError"})

(***************************************************************************)
(* Properties of group_entries_by_category and build_category_summaries    *)
(***************************************************************************)

\* How many positions of the sequence hold the entry.
Occurrences(s, e) == Cardinality({i \in 1..Len(s) : s[i] = e})

\* a is not after b in the order (key, scope precedence).
KeyScopeLeq(a, b) ==
    \/ StrLess(a.key, b.key)
    \/ a.key = b.key /\ RankOf(a.scope) <= RankOf(b.scope)

AscendingByKeyScope(s) ==
    \A i, j \in 1..Len(s) : i < j => KeyScopeLeq(s[i], s[j])

\* C18: build_category_summaries returns one summary per known category in
\* declaration order and the "uncategorized" summary last; each summary
\* holds exactly the input entries resolved to its category (none for a
\* category without entries), ascending by (key, scope precedence), and its
\* active_count is the number of those entries with is_active true.
C18_SummariesCompleteSortedCounted ==
    cat_pc = "summarised" =>
        LET n == Len(_DEFAULT_CATEGORIES)
        IN  /\ Len(summaries) = n + 1
            /\ \A i \in 1..n : summaries[i].category = _DEFAULT_CATEGORIES[i].id
            /\ summaries[n + 1].category = UNCATEGORIZED_CATEGORY_id
            /\ \A i \in 1..Len(summaries) :
                   /\ \A e \in GivenEntries :
                          Occurrences(summaries[i].entries, e) =
                              IF _resolve_entry_category(e) = summaries[i].category
                              THEN Occurrences(cat_entries, e)
                              ELSE 0
                   /\ AscendingByKeyScope(summaries[i].entries)
                   /\ summaries[i].active_count =
                          Cardinality({k \in 1..Len(summaries[i].entries) :
                                          summaries[i].entries[k].is_active})

\* Summaries of two entries given out of order, one of them active, beside
\* categories that have no entry.
C18_Witness ==
    /\ cat_pc = "summarised"
    /\ \E i \in 1..Len(summaries) :
           /\ Len(summaries[i].entries) = 2
           /\ summaries[i].entries # cat_entries
           /\ summaries[i].active_count = 1
    /\ \E i \in 1..Len(summaries) :
           summaries[i].entries = <<>> /\ summaries[i].active_count = 0

\* C19: group_entries_by_category partitions its input: every input entry
\* is in exactly one bucket, no bucket is empty, the buckets together hold
\* each entry as often as the input does, and every bucket is ascending by
\* (key, scope precedence).
C19_GroupingPartitionsSorted ==
    cat_pc = "grouped" =>
        /\ \A k \in 1..Len(cat_entries) :
               Cardinality({i \in 1..Len(grouped) :
                               Occurrences(grouped[i].bucket, cat_entries[k]) > 0}) = 1
        /\ \A i \in 1..Len(grouped) : grouped[i].bucket # <<>>
        /\ \A e \in GivenEntries :
               Occurrences(Flatten([i \in 1..Len(grouped) |-> grouped[i].bucket]), e)
                   = Occurrences(cat_entries, e)
        /\ \A i \in 1..Len(grouped) : AscendingByKeyScope(grouped[i].bucket)

\* One bucket of two entries that the input gave in descending order.
C19_Witness ==
    /\ cat_pc = "grouped"
    /\ Len(cat_entries) = 2
    /\ ~KeyScopeLeq(cat_entries[1], cat_entries[2])
    /\ Len(grouped) = 1
    /\ grouped[1].bucket = <<cat_entries[2], cat_entries[1]>>

\* The entry's category_id names no category and is not "uncategorized".
UnknownCategoryId(entry) ==
    entry.category_id # UNCATEGORIZED_CATEGORY_id
    /\ \A i \in 1..Len(_DEFAULT_CATEGORIES) : _DEFAULT_CATEGORIES[i].id # entry.category_id

\* The entry is in the bucket, or in the summary, of the category.
GroupedUnder(entry, category_id) ==
    \E i \in 1..Len(grouped) :
        grouped[i].category_id = category_id /\ Occurrences(grouped[i].bucket, entry) > 0
SummarisedUnder(entry, category_id) ==
    \E i \in 1..Len(summaries) :
        summaries[i].category = category_id /\ Occurrences(summaries[i].entries, entry) > 0

\* C20 as stated: an entry whose category_id is not a known category id is
\* grouped and summarised under "uncategorized".
C20_UnknownIdUnderUncategorized ==
    \A k \in 1..Len(cat_entries) :
        UnknownCategoryId(cat_entries[k]) =>
            /\ cat_pc = "grouped" => GroupedUnder(cat_entries[k], UNCATEGORIZED_CATEGORY_id)
            /\ cat_pc = "summarised" => SummarisedUnder(cat_entries[k], UNCATEGORIZED_CATEGORY_id)

\* C20 amended: an entry whose category_id is not a known category id is
\* grouped and summarised under the category its key resolves to, which is
\* "uncategorized" only when the key matches no category; the calls return.
C20_UnknownIdUnderCategoryOfKey ==
    \A k \in 1..Len(cat_entries) :
        UnknownCategoryId(cat_entries[k]) =>
            /\ cat_pc = "grouped" =>
                   GroupedUnder(cat_entries[k], resolve_category_id(cat_entries[k].key))
            /\ cat_pc = "summarised" =>
                   SummarisedUnder(cat_entries[k], resolve_category_id(cat_entries[k].key))

\* Summaries of two entries with an unknown category_id: one whose key a
\* category lists, one whose key none lists.
C20_Witness ==
    /\ cat_pc = "summarised"
    /\ Len(cat_entries) = 2
    /\ UnknownCategoryId(cat_entries[1]) /\ cat_entries[1].key = CoreEditorKey
    /\ UnknownCategoryId(cat_entries[2]) /\ cat_entries[2].key = UnlistedKey
    /\ SummarisedUnder(cat_entries[1], resolve_category_id(CoreEditorKey))
    /\ SummarisedUnder(cat_entries[2], UNCATEGORIZED_CATEGORY_id)

(***************************************************************************)
(* Implicit properties of parse_git_config_output                          *)
(***************************************************************************)

\* C26: in every snapshot parse_git_config_output returns, an entry has
\* is_active = true if and only if its overridden_by list is empty.
C26_ActiveIffNotOverridden ==
    Accepted =>
        \A i \in 1..Len(snapshot.entries) :
            snapshot.entries[i].is_active <=> snapshot.entries[i].overridden_by = <<>>

\* A snapshot with an overridden, inactive entry beside an active one that
\* nothing overrides.
C26_Witness ==
    /\ Accepted
    /\ \E i, j \in 1..Len(snapshot.entries) :
          /\ snapshot.entries[i].key = snapshot.entries[j].key
          /\ ~snapshot.entries[i].is_active
          /\ snapshot.entries[i].overridden_by = <<snapshot.entries[j].scope>>
          /\ snapshot.entries[j].is_active
          /\ snapshot.entries[j].overridden_by = <<>>

\* The checks a non-blank line fails, each judged on its own: "tokens" when
\* it has fewer than three tokens (the other checks then have nothing to
\* look at), else any of "scope" (the first token is no scope), "origin"
\* (the second token is a bare "file:") and "key" (nothing before the "=").
FailedChecks(line) ==
    LET tokens == TokensOf(line)
    IN  IF Len(tokens) < 3 THEN {"tokens"}
        ELSE (IF Lower(tokens[1]) \in {ScopeValue[sc] : sc \in Scopes} THEN {} ELSE {"scope"})
             \cup (IF tokens[2] = FilePrefix THEN {"origin"} ELSE {})
             \cup (IF PayloadOf(line)[1] = "=" THEN {"key"} ELSE {})

\* The order of the checks and the exception each raises.
CheckOrder == <<"tokens", "scope", "origin", "key">>
ErrorOfCheck ==
    [check \in {"tokens", "scope", "origin", "key"} |->
        CASE check = "tokens" -> Raise("ConfigurationError", "Unexpected git config output format")
          [] check = "scope"  -> Raise("ValidationError", "Unsupported Git scope")
          [] check = "origin" -> Raise("ConfigurationError", "Origin path missing in git output")
          [] check = "key"    -> Raise("ConfigurationError",
                                       "Encountered git configuration entry with empty key")]

\* C27: when some line fails a check, parse_git_config_output raises the
\* error of the earliest failed check (token count, scope, origin, key) of
\* the first such line in input order, whatever the later lines hold, and
\* returns no snapshot, not even one of the lines before.
C27_FirstFailureDecides ==
    pc # "call" =>
        LET lines == SplitLines(output)
            bad   == {i \in 1..Len(lines) : ~IsBlank(lines[i]) /\ FailedChecks(lines[i]) # {}}
        IN  bad # {} =>
                LET first  == CHOOSE i \in bad : \A j \in bad : i <= j
                    failed == FailedChecks(lines[first])
                    check  == CheckOrder[CHOOSE n \in 1..Len(CheckOrder) :
                                  /\ CheckOrder[n] \in failed
                                  /\ \A m \in 1..(n - 1) : CheckOrder[m] \notin failed]
                IN  /\ pc = "raised"
                    /\ error = ErrorOfCheck[check]
                    /\ records = <<>>
                    /\ snapshot = EmptySnapshot

\* A well-formed line, then a line with neither origin path nor key, then a
\* line with two tokens: the origin check of the second line decides.
C27_Witness ==
    /\ pc = "raised"
    /\ SplitLines(output) = <<GlobalLine, NoOriginNoKeyLine, TwoTokenLine>>
    /\ error = ErrorOfCheck["origin"]
    /\ snapshot = EmptySnapshot

(***************************************************************************)
(* Implicit properties of resolve_category_id                              *)
(***************************************************************************)

\* The categories, by position, whose keys list the key literally.
ListingCategories(key) ==
    {i \in 1..Len(_DEFAULT_CATEGORIES) :
        \E j \in 1..Len(_DEFAULT_CATEGORIES[i].keys) :
            /\ _DEFAULT_CATEGORIES[i].keys[j] = key
            /\ ~IsWildcard(_DEFAULT_CATEGORIES[i].keys[j])}

\* The categories, by position, with a glob pattern that matches the key.
MatchingCategories(key) ==
    {i \in 1..Len(_DEFAULT_CATEGORIES) :
        \E j \in 1..Len(_DEFAULT_CATEGORIES[i].keys) :
            /\ IsWildcard(_DEFAULT_CATEGORIES[i].keys[j])
            /\ fnmatchcase(key, _DEFAULT_CATEGORIES[i].keys[j])}

\* C28: a key that categories list literally resolves to the last-declared
\* of them, while a key only glob patterns match resolves to the
\* first-declared category with a matching pattern; user.signingkey, listed
\* by user-identity and by commit-signing, resolves to commit-signing and
\* not to user-identity.
C28_ExactKeyLastDeclaredWins ==
    lookup_pc = "returned" =>
        LET key      == Strip(lookup_key)
            listing  == ListingCategories(key)
            matching == MatchingCategories(key)
        IN  /\ listing # {} =>
                   lookup_result =
                       _DEFAULT_CATEGORIES[CHOOSE i \in listing : \A j \in listing : j <= i].id
            /\ (listing = {} /\ matching # {}) =>
                   lookup_result =
                       _DEFAULT_CATEGORIES[CHOOSE i \in matching : \A j \in matching : i <= j].id
            /\ key = SigningKey =>
                   /\ Cardinality(listing) = 2
                   /\ \E i \in listing : _DEFAULT_CATEGORIES[i].id = UserIdentityId
                   /\ lookup_result = CommitSigningId
                   /\ lookup_result # UserIdentityId

\* user.signingkey after a space resolved to commit-signing.
C28_Witness ==
    /\ lookup_pc = "returned"
    /\ lookup_key = <<" ">> \o SigningKey
    /\ lookup_result = CommitSigningId

(***************************************************************************)
(* Properties of the ConfigSnapshot constructor                            *)
(***************************************************************************)

\* Two of the entries given have the same (key, scope) pair.
CtorDuplicatePair ==
    \E i, j \in 1..Len(ctor_entries) :
        /\ i # j
        /\ ctor_entries[i].key = ctor_entries[j].key
        /\ ctor_entries[i].scope = ctor_entries[j].scope

CtorEntryKeys == {ctor_entries[i].key : i \in 1..Len(ctor_entries)}

\* C22: the ConfigSnapshot constructor raises when two entries have the
\* same (key, scope) pair, when a key of entries is missing from
\* effective_map, and when effective_map has a key that no entry has.
C22_ConstructorRejectsViolations ==
    ctor_pc # "call" =>
        /\ CtorDuplicatePair => ctor_pc = "raised"
        /\ CtorEntryKeys \ DOMAIN ctor_map # {} => ctor_pc = "raised"
        /\ DOMAIN ctor_map \ CtorEntryKeys # {} => ctor_pc = "raised"

(***************************************************************************)
(* Properties of build_bundle_summaries                                    *)
(***************************************************************************)

\* The positions of the summaries supplied for the category.
SuppliedFor(category_id) ==
    {i \in 1..Len(given_summaries.summaries) :
        given_summaries.summaries[i].category = category_id}

C30_EmptyBundlesMeanDefaults ==
    bundle_pc = "returned" =>
        /\ given_bundles \in { <<>>, << <<>> >> } =>
               /\ Len(bundle_summaries) = Len(_DEFAULT_BUNDLES)
               /\ \A b \in 1..Len(_DEFAULT_BUNDLES) :
                      /\ bundle_summaries[b].bundle = _DEFAULT_BUNDLES[b]
                      /\ Len(bundle_summaries[b].categories) = Len(_DEFAULT_BUNDLES[b].categories)
        /\ bundle_summaries # <<>>

\* A call with bundles = [] that returned the two default bundles, the
\* first of them covered by a supplied summary.
C30_Witness ==
    /\ bundle_pc = "returned"
    /\ given_bundles = << <<>> >>
    /\ Len(bundle_summaries) = 2
    /\ bundle_summaries[1].bundle = _DEFAULT_BUNDLES[1]
    /\ bundle_summaries[1].covered_categories = 1

(***************************************************************************)
(* Properties of build_config_table                                        *)
(***************************************************************************)

\* The entries of the snapshot the table displays: those of the scope asked
\* for, if any, in the category asked for, if any.
DisplayedEntries ==
    {table_snapshot.entries[i] : i \in
        {j \in 1..Len(table_snapshot.entries) :
            /\ table_scope = "none" \/ table_snapshot.entries[j].scope = table_scope
            /\ Truthy(table_category_id) =>
                   _resolve_entry_category(table_snapshot.entries[j]) = table_category_id[1]}}

\* The category the entry of a row is displayed under.
RowCategory(i) == _resolve_entry_category(table_rows[i].entry)

\* A row that begins the rows of its category.
FirstOfCategory(i) == i = 1 \/ RowCategory(i) # RowCategory(i - 1)

\* C24: the table has one row per displayed entry; the category cell holds
\* the category name on the first row of each displayed category and is
\* empty on every other row; the key cell holds the key on the first row of
\* each run of consecutive rows with the same key inside a category and is
\* empty on every other row.
C24_CellsShownOncePerRun ==
    table_pc = "returned" =>
        /\ Len(table_rows) = Cardinality(DisplayedEntries)
        /\ {table_rows[i].entry : i \in 1..Len(table_rows)} = DisplayedEntries
        /\ \A i \in 1..Len(table_rows) :
              /\ table_rows[i].category_cell =
                     IF FirstOfCategory(i) THEN CategoryName(RowCategory(i)) ELSE <<>>
              /\ table_rows[i].key_cell =
                     IF FirstOfCategory(i) \/ table_rows[i].entry.key # table_rows[i - 1].entry.key
                     THEN table_rows[i].entry.key ELSE <<>>
              /\ CategoryName(RowCategory(i)) # <<>>
              /\ table_rows[i].entry.key # <<>>

\* A table where a category begins on a row whose key is the key of the row
\* before it, and where a later row repeats the key of its category.
C24_Witness ==
    /\ table_pc = "returned"
    /\ \E i \in 2..Len(table_rows) :
          /\ FirstOfCategory(i)
          /\ table_rows[i].entry.key = table_rows[i - 1].entry.key
          /\ table_rows[i].key_cell # <<>>
    /\ \E i \in 2..Len(table_rows) :
          /\ table_rows[i].key_cell = <<>>
          /\ table_rows[i].category_cell = <<>>

\* C25: a row ends a section exactly when it is the last row of a displayed
\* category and rows of another category follow it; the final row of the
\* table never does, and the rows of a category are consecutive, so a
\* category without displayed rows adds no break.
C25_SectionEndsBetweenCategories ==
    table_pc = "returned" =>
        /\ \A i \in 1..Len(table_rows) :
              table_rows[i].end_section <=>
                  (i < Len(table_rows) /\ RowCategory(i) # RowCategory(i + 1))
        /\ \A i, j, k \in 1..Len(table_rows) :
              (i < j /\ j < k /\ RowCategory(i) = RowCategory(k)) =>
                  RowCategory(j) = RowCategory(i)

\* A table of two displayed categories from a snapshot with a third
\* category, all of whose entries the scope filter hides: the first row ends
\* a section, the final row does not.
C25_Witness ==
    /\ table_pc = "returned"
    /\ table_scope # "none"
    /\ Len(table_rows) = 2
    /\ table_rows[1].end_section
    /\ ~table_rows[2].end_section
    /\ \E i \in 1..Len(table_snapshot.entries) :
          /\ table_snapshot.entries[i].scope # table_scope
          /\ \A r \in 1..Len(table_rows) :
                _resolve_entry_category(table_snapshot.entries[i]) # RowCategory(r)

(***************************************************************************)
(* Properties of the view command's options                                *)
(***************************************************************************)

CategoryNotice ==
    StatusPanel("warning", "", "Category filtering is not yet available. Showing all categories.")
SearchNotice ==
    StatusPanel("warning", "", "Search filtering is not yet available. Showing all entries.")
JsonNotice ==
    StatusPanel("warning", "", "JSON output currently ignores filters. Returning the full snapshot.")

\* The notices the options of the run call for, in the order printed.
NoticesOfOptions ==
    (IF Truthy(opt_category) THEN <<CategoryNotice>> ELSE <<>>)
    \o (IF Truthy(opt_search) THEN <<SearchNotice>> ELSE <<>>)

\* The entries of the snapshot read that have the scope of --scope.
EntriesOfScope ==
    {snapshot.entries[i] : i \in {j \in 1..Len(snapshot.entries) :
                                     opt_scope = "none" \/ snapshot.entries[j].scope = opt_scope}}

\* What the run shows is a table of exactly the entries of the scope of
\* --scope, of every category, or the 'Empty Result' panel when the snapshot
\* has no such entry.
ShowsEntriesOfScope ==
    LET shown == console[Len(console)]
    IN  IF EntriesOfScope = {}
        THEN shown.kind = "panel" /\ shown.title = "Empty Result" /\ shown.category_id = <<>>
        ELSE /\ shown.kind = "renderable"
             /\ Len(shown.rows) = Cardinality(EntriesOfScope)
             /\ {shown.rows[i].entry : i \in 1..Len(shown.rows)} = EntriesOfScope

\* C23: a known --category id and --search add their 'not yet available'
\* notice and change nothing else: the snapshot is read with the same
\* arguments, the run shows the entries of every category (the renderer is
\* given None as the category filter), and with --format json the document
\* holds every entry of the snapshot.
C23_CategoryAndSearchOnlyNotify ==
    /\ (view_pc \in {"reading", "crashed"} \/ (view_pc = "exited" /\ exit_code # <<3>>)) =>
          /\ SubSeq(console, 1, Len(NoticesOfOptions)) = NoticesOfOptions
          /\ runner = "default"
          /\ timeout = <<DefaultTimeout>>
          /\ require_scope = (IF opt_scope = "local" THEN "local" ELSE "none")
    /\ (view_pc = "exited" /\ exit_code = <<0>>) =>
          IF opt_format = "json"
          THEN /\ console[Len(console)].kind = "json"
               /\ console[Len(console)].entries = snapshot.entries
               /\ Len(console) = Len(NoticesOfOptions) + 1
                      + (IF opt_scope # "none" \/ NoticesOfOptions # <<>> THEN 1 ELSE 0)
          ELSE /\ ShowsEntriesOfScope
               /\ console[Len(console)] = render_config_snapshot(snapshot, opt_scope, <<>>)
               /\ Len(console) = Len(NoticesOfOptions) + 1

\* A run with --category core-behavior and --search that shows a table with
\* a row of another category.
C23_Witness ==
    /\ view_pc = "exited"
    /\ exit_code = <<0>>
    /\ opt_format = "pretty"
    /\ Truthy(opt_category)
    /\ Truthy(opt_search)
    /\ console[Len(console)].kind = "renderable"
    /\ \E i \in 1..Len(console[Len(console)].rows) :
          _resolve_entry_category(console[Len(console)].rows[i].entry) # opt_category[1]

\* C29 as stated: with --scope system or --scope global no scope is
\* required of read_config_snapshot, the run never ends with exit code 4,
\* and once the snapshot is read the run shows the entries of that scope, or
\* the 'Empty Result' panel, and ends with exit code 0.
C29_OtherScopesRenderFiltered ==
    (opt_scope \in {"system", "global"}) =>
        /\ require_scope = "none"
        /\ exit_code # <<4>>
        /\ (view_pc = "exited" /\ read_pc = "returned") =>
               /\ exit_code = <<0>>
               /\ ShowsEntriesOfScope

\* C29, amended: the entries of the scope, or the 'Empty Result' panel, are
\* shown in the pretty format; with --format json the run prints the notice
\* that filters are ignored and the document of the whole snapshot.
C29_OtherScopesNeverUnavailable ==
    (opt_scope \in {"system", "global"}) =>
        /\ require_scope = "none"
        /\ exit_code # <<4>>
        /\ (view_pc = "exited" /\ read_pc = "returned") =>
               /\ exit_code = <<0>>
               /\ IF opt_format = "pretty"
                  THEN ShowsEntriesOfScope
                  ELSE /\ console[Len(console)] = snapshot_to_json(snapshot)
                       /\ console[Len(console) - 1] = JsonNotice

\* A run with --scope system over a snapshot without metadata for the
\* system scope that shows the system entry and not the global one.
C29_Witness ==
    /\ opt_scope = "system"
    /\ opt_format = "pretty"
    /\ view_pc = "exited"
    /\ exit_code = <<0>>
    /\ "system" \notin DOMAIN snapshot.scopes
    /\ console[Len(console)].kind = "renderable"
    /\ Len(console[Len(console)].rows) < Len(snapshot.entries)

====
